---------------------------- MODULE Spec2Model ----------------------------
(***************************************************************************)
(* A model of the output compaction engine of pi-rtk-noemoji.              *)
(*                                                                         *)
(* Texts are sequences of one-character strings, or, for the line          *)
(* scanners, sequences of lines.  Every technique has its own variables    *)
(* and its own specification (SpecAnsi, SpecBuild, ...); a specification   *)
(* leaves the variables of the other techniques at their idle values.      *)
(***************************************************************************)
EXTENDS Integers, Sequences, FiniteSets, TLC

VARIABLES
    \* ANSI stripper (src/README.md:111-129)
    ansiPc, ansiText, ansiOnce, ansiTwice,
    \* Build aggregator (src/README.md:131-302)
    bPc, bCommand, bLines, build, bResult,
    \* Test aggregator (src/techniques/test-output.ts)
    tPc, tCommand, tLines, tSummary, tIdx, test, tResult,
    \* Path compactor (src/unnamed/part_001:89-100)
    pPc, pPath, pMax, pResult,
    \* Git compactor: compactStatus (src/techniques/git.ts:100-201)
    sPc, sOutput, sResult,
    \* Search grouper (src/unnamed/part_001:18-87)
    gPc, gOutput, gMaxResults, gResult,
    \* Source filter (src/unnamed/part_002:56-188)
    fPc, fContent, fLanguage, fResult,
    \* Smart truncation (src/unnamed/part_002:190-229)
    kPc, kContent, kMaxLines, kResult,
    \* Command classifier: isTestCommand (src/techniques/test-output.ts:37-48)
    cPc, cCommand, cPieces, cResult,
    \* Engine: module state of src/index.ts:36-41, the configuration objects and the metrics
    heap, config, enabled, loaded, load, commands, processedCount, metrics, last, event,
    \* Compactors of command output (src/unnamed/part_003:92-155, src/techniques/git.ts:13-201)
    oPc, oCommand, oLines, oMax, oResult

ansiVars == <<ansiPc, ansiText, ansiOnce, ansiTwice>>
buildVars == <<bPc, bCommand, bLines, build, bResult>>
testVars == <<tPc, tCommand, tLines, tSummary, tIdx, test, tResult>>
pathVars == <<pPc, pPath, pMax, pResult>>
statusVars == <<sPc, sOutput, sResult>>
searchVars == <<gPc, gOutput, gMaxResults, gResult>>
filterVars == <<fPc, fContent, fLanguage, fResult>>
truncVars == <<kPc, kContent, kMaxLines, kResult>>
cmdVars == <<cPc, cCommand, cPieces, cResult>>
engineVars == <<heap, config, enabled, loaded, load, commands,
    processedCount, metrics, last, event>>
outVars == <<oPc, oCommand, oLines, oMax, oResult>>

vars == <<ansiVars, buildVars, testVars, pathVars, statusVars, searchVars,
         filterVars, truncVars, cmdVars, engineVars, outVars>>

\* What each technique's actions leave alone.
notAnsi == <<buildVars, testVars, pathVars, statusVars, searchVars,
    filterVars, truncVars, cmdVars, engineVars, outVars>>
notBuild == <<ansiVars, testVars, pathVars, statusVars, searchVars,
    filterVars, truncVars, cmdVars, engineVars, outVars>>
notTest == <<ansiVars, buildVars, pathVars, statusVars, searchVars,
    filterVars, truncVars, cmdVars, engineVars, outVars>>
notPath == <<ansiVars, buildVars, testVars, statusVars, searchVars,
    filterVars, truncVars, cmdVars, engineVars, outVars>>
notStatus == <<ansiVars, buildVars, testVars, pathVars, searchVars,
    filterVars, truncVars, cmdVars, engineVars, outVars>>
notSearch == <<ansiVars, buildVars, testVars, pathVars, statusVars,
    filterVars, truncVars, cmdVars, engineVars, outVars>>
notFilter == <<ansiVars, buildVars, testVars, pathVars, statusVars,
    searchVars, truncVars, cmdVars, engineVars, outVars>>
notTrunc == <<ansiVars, buildVars, testVars, pathVars, statusVars,
    searchVars, filterVars, cmdVars, engineVars, outVars>>
notCmd == <<ansiVars, buildVars, testVars, pathVars, statusVars,
    searchVars, filterVars, truncVars, engineVars, outVars>>
notEngine == <<ansiVars, buildVars, testVars, pathVars, statusVars,
    searchVars, filterVars, truncVars, cmdVars, outVars>>
notOut == <<ansiVars, buildVars, testVars, pathVars, statusVars,
    searchVars, filterVars, truncVars, cmdVars, engineVars>>

(***************************************************************************)
(* Generic helpers on sequences.                                           *)
(***************************************************************************)

\* n times the same line.
Repeat(line, n) == [i \in 1..n |-> line]

\* All sequences over S of length at most n.
SeqsUpTo(S, n) == UNION {[1..k -> S] : k \in 0..n}

\* Array.prototype.slice(0, n): the first n elements, all when there are fewer.
Take(s, n) == SubSeq(s, 1, IF n < Len(s) THEN n ELSE Len(s))

\* The number of positions of s whose element is in S.
Count(s, S) == Cardinality({i \in 1..Len(s) : s[i] \in S})

\* A value of type string | null.
Null   == [null |-> TRUE,  text |-> <<>>]
Str(t) == [null |-> FALSE, text |-> t]

\* String.prototype.toLowerCase, on the letters the commands use.
ToLowerChar(c) ==
    CASE c = "A" -> "a" [] c = "B" -> "b" [] c = "C" -> "c" [] c = "D" -> "d"
      [] c = "E" -> "e" [] c = "F" -> "f" [] c = "G" -> "g" [] c = "H" -> "h"
      [] c = "I" -> "i" [] c = "J" -> "j" [] c = "K" -> "k" [] c = "L" -> "l"
      [] c = "M" -> "m" [] c = "N" -> "n" [] c = "O" -> "o" [] c = "P" -> "p"
      [] c = "Q" -> "q" [] c = "R" -> "r" [] c = "S" -> "s" [] c = "T" -> "t"
      [] c = "U" -> "u" [] c = "V" -> "v" [] c = "W" -> "w" [] c = "X" -> "x"
      [] c = "Y" -> "y" [] c = "Z" -> "z" [] OTHER -> c

toLowerCase(s) == [i \in 1..Len(s) |-> ToLowerChar(s[i])]

\* String.prototype.includes: sub occurs in s as a contiguous substring.
includes(s, sub) ==
    \E i \in 1..(Len(s) - Len(sub) + 1) : SubSeq(s, i, i + Len(sub) - 1) = sub

Whitespace == {" ", "\t", "\n"}

\* String.prototype.trim
RECURSIVE trimStart(_)
trimStart(s) ==
    IF s # <<>> /\ Head(s) \in Whitespace THEN trimStart(Tail(s)) ELSE s

RECURSIVE trimEnd(_)
trimEnd(s) ==
    IF s # <<>> /\ s[Len(s)] \in Whitespace THEN trimEnd(SubSeq(s, 1, Len(s) - 1)) ELSE s

trim(s) == trimEnd(trimStart(s))

\* String.prototype.startsWith
startsWith(s, prefix) ==
    Len(s) >= Len(prefix) /\ SubSeq(s, 1, Len(prefix)) = prefix

\* String.prototype.indexOf, counting from 1; 0 when sub does not occur.
indexOf(s, sub) ==
    IF includes(s, sub)
    THEN CHOOSE i \in 1..(Len(s) - Len(sub) + 1) :
             /\ SubSeq(s, i, i + Len(sub) - 1) = sub
             /\ \A j \in 1..(i - 1) : SubSeq(s, j, j + Len(sub) - 1) # sub
    ELSE 0

\* String.prototype.split(sep) for a one-character separator: the parts
\* between the separators, in order; never empty.
RECURSIVE Split(_, _)
Split(s, sep) ==
    IF \A i \in 1..Len(s) : s[i] # sep THEN <<s>>
    ELSE LET k == CHOOSE i \in 1..Len(s) :
                     s[i] = sep /\ \A j \in 1..(i - 1) : s[j] # sep
         IN  <<SubSeq(s, 1, k - 1)>> \o Split(SubSeq(s, k + 1, Len(s)), sep)

(***************************************************************************)
(* Regular expressions, as the techniques use them on whole texts and on   *)
(* lines: a pattern is a sequence of nodes, matched by backtracking in the *)
(* order of preference of the RegExp of the language (the leftmost match,  *)
(* a greedy repetition tries its longest run first, a lazy one its         *)
(* shortest, an alternation its alternatives from left to right).          *)
(***************************************************************************)
Digit == {"0", "1", "2", "3", "4", "5", "6", "7", "8", "9"}
LowerCase ==
    {"a", "b", "c", "d", "e", "f", "g", "h", "i", "j", "k", "l", "m", "n", "o",
     "p", "q", "r", "s", "t", "u", "v", "w", "x", "y", "z"}
UpperCase ==
    {"A", "B", "C", "D", "E", "F", "G", "H", "I", "J", "K", "L", "M", "N", "O",
     "P", "Q", "R", "S", "T", "U", "V", "W", "X", "Y", "Z"}
\* \w and \s, and what "." does not match
WordChar == LowerCase \cup UpperCase \cup Digit \cup {"_"}
SpaceChar == {" ", "\t", "\n", "\r"}
LineEnd == {"\n", "\r"}

\* The nodes: a literal text (ci: compared without regard to case), one
\* character of a class or of its complement, a repetition of such a class
\* (at least min times), an optional part, an alternation, a capture group,
\* and the assertions ^, $ and \b.
Lit(text) == [t |-> "lit", s |-> text, ci |-> FALSE]
LitI(text) == [t |-> "lit", s |-> text, ci |-> TRUE]
OneOf(class) == [t |-> "set", s |-> class, neg |-> FALSE]
NoneOf(class) == [t |-> "set", s |-> class, neg |-> TRUE]
Many(class, min) == [t |-> "run", s |-> class, neg |-> FALSE, min |-> min, greedy |-> TRUE]
ManyNot(class, min) == [t |-> "run", s |-> class, neg |-> TRUE, min |-> min, greedy |-> TRUE]
FewNot(class, min) == [t |-> "run", s |-> class, neg |-> TRUE, min |-> min, greedy |-> FALSE]
Opt(nodes) == [t |-> "opt", r |-> nodes]
Alt(alternatives) == [t |-> "alt", r |-> alternatives]
Grp(k, nodes) == [t |-> "grp", k |-> k, r |-> nodes]
EndGrp(k, from) == [t |-> "end", k |-> k, from |-> from]
Bol == [t |-> "bol"]
Eol == [t |-> "eol"]
Wb == [t |-> "wb"]

\* The capture groups: <<from, to>> for the characters from..to - 1, and
\* <<0, 0>> for a group that took no part in the match.
MaxGroups == 5
NoCaptures == [k \in 1..MaxGroups |-> <<0, 0>>]
NoMatch == [ok |-> FALSE, from |-> 0, to |-> 0, caps |-> NoCaptures]

\* The length of the run of characters of the class that starts at s[i].
RECURSIVE RunLength(_, _, _)
RunLength(s, i, n) ==
    IF i <= Len(s) /\ ((s[i] \in n.s) # n.neg) THEN 1 + RunLength(s, i + 1, n) ELSE 0

IsWordAt(s, i) == i >= 1 /\ i <= Len(s) /\ s[i] \in WordChar

\* Exec(stack, s, i, caps): the nodes of the stack matched one after the
\* other from s[i] on; the first match in the order of preference.
RECURSIVE Exec(_, _, _, _)
RECURSIVE ExecRun(_, _, _, _, _, _, _)
RECURSIVE ExecAlt(_, _, _, _, _, _)

\* The run takes len characters, then the next length in the order of
\* preference, up to the longest run max.
ExecRun(n, rest, s, i, caps, len, max) ==
    IF len < n.min \/ len > max THEN NoMatch
    ELSE LET m == Exec(rest, s, i + len, caps)
         IN  IF m.ok THEN m
             ELSE ExecRun(n, rest, s, i, caps, IF n.greedy THEN len - 1 ELSE len + 1, max)

ExecAlt(alternatives, a, rest, s, i, caps) ==
    IF a > Len(alternatives) THEN NoMatch
    ELSE LET m == Exec(alternatives[a] \o rest, s, i, caps)
         IN  IF m.ok THEN m ELSE ExecAlt(alternatives, a + 1, rest, s, i, caps)

Exec(stack, s, i, caps) ==
    IF stack = <<>> THEN [ok |-> TRUE, from |-> 0, to |-> i, caps |-> caps]
    ELSE LET n == Head(stack)
             rest == Tail(stack)
         IN  CASE n.t = "lit" ->
                    LET sub == SubSeq(s, i, i + Len(n.s) - 1)
                    IN  IF /\ i + Len(n.s) - 1 <= Len(s)
                           /\ IF n.ci THEN toLowerCase(sub) = toLowerCase(n.s)
                                      ELSE sub = n.s
                        THEN Exec(rest, s, i + Len(n.s), caps)
                        ELSE NoMatch
               [] n.t = "set" ->
                    IF i <= Len(s) /\ ((s[i] \in n.s) # n.neg)
                    THEN Exec(rest, s, i + 1, caps)
                    ELSE NoMatch
               [] n.t = "run" ->
                    LET max == RunLength(s, i, n)
                    IN  ExecRun(n, rest, s, i, caps, IF n.greedy THEN max ELSE n.min, max)
               [] n.t = "opt" ->
                    LET m == Exec(n.r \o rest, s, i, caps)
                    IN  IF m.ok THEN m ELSE Exec(rest, s, i, caps)
               [] n.t = "alt" -> ExecAlt(n.r, 1, rest, s, i, caps)
               [] n.t = "grp" -> Exec(n.r \o <<EndGrp(n.k, i)>> \o rest, s, i, caps)
               [] n.t = "end" ->
                    Exec(rest, s, i, [caps EXCEPT ![n.k] = <<n.from, i>>])
               [] n.t = "bol" -> IF i = 1 THEN Exec(rest, s, i, caps) ELSE NoMatch
               [] n.t = "eol" ->
                    IF i = Len(s) + 1 THEN Exec(rest, s, i, caps) ELSE NoMatch
               [] n.t = "wb" ->
                    IF IsWordAt(s, i - 1) # IsWordAt(s, i)
                    THEN Exec(rest, s, i, caps)
                    ELSE NoMatch

\* s.match(pattern): the leftmost match, looked for from s[i] on.
RECURSIVE SearchFrom(_, _, _)
SearchFrom(pattern, s, i) ==
    IF i > Len(s) + 1 THEN NoMatch
    ELSE LET m == Exec(pattern, s, i, NoCaptures)
         IN  IF m.ok THEN [m EXCEPT !.from = i] ELSE SearchFrom(pattern, s, i + 1)

Match(pattern, s) == SearchFrom(pattern, s, 1)

\* pattern.test(s)
Test(pattern, s) == Match(pattern, s).ok

\* match[k], for a group that took part in the match.
Group(m, s, k) == SubSeq(s, m.caps[k][1], m.caps[k][2] - 1)
HasGroup(m, k) == m.caps[k][1] > 0

\* patterns.some((pattern) => pattern.test(s))
TestSome(patterns, s) == \E p \in 1..Len(patterns) : Test(patterns[p], s)

\* String(n) for a number n >= 0, and parseInt of a run of digits.
RECURSIVE Digits(_)
Digits(n) ==
    LET d == <<"0", "1", "2", "3", "4", "5", "6", "7", "8", "9">>
    IN  IF n < 10 THEN <<d[n + 1]>> ELSE Digits(n \div 10) \o <<d[(n % 10) + 1]>>

DigitValue(c) ==
    CASE c = "0" -> 0 [] c = "1" -> 1 [] c = "2" -> 2 [] c = "3" -> 3
      [] c = "4" -> 4 [] c = "5" -> 5 [] c = "6" -> 6 [] c = "7" -> 7
      [] c = "8" -> 8 [] c = "9" -> 9

RECURSIVE parseInt(_)
parseInt(digits) ==
    IF digits = <<>> THEN 0
    ELSE 10 * parseInt(SubSeq(digits, 1, Len(digits) - 1)) + DigitValue(digits[Len(digits)])

\* lines.join("\n")
RECURSIVE Join(_, _)
Join(lines, sep) ==
    IF lines = <<>> THEN <<>>
    ELSE IF Len(lines) = 1 THEN lines[1]
    ELSE lines[1] \o sep \o Join(Tail(lines), sep)

(***************************************************************************)
(* ANSI stripper.                                                          *)
(***************************************************************************)

\* Longest text the ANSI specification draws.
MaxAnsiLen == 6

ESC == "ESC"
BEL == "BEL"
BSL == "\\"

\* One representative of each character class the three regexes tell apart:
\*   "0" stands for [0-9;], "m" for [a-zA-Z].
AnsiDigits  == {"0"}
AnsiLetters == {"m"}
AnsiChars   == {ESC, BEL, BSL, "[", "]", "0", "m"}

\* First position j >= i with s[j] \notin class (Len(s)+1 if none): a greedy X*.
RECURSIVE SkipWhile(_, _, _)
SkipWhile(s, i, class) ==
    IF i <= Len(s) /\ s[i] \in class THEN SkipWhile(s, i + 1, class) ELSE i

\* Length of (?:\x07|\x1b\\) at position j, 0 when it does not match there.
TerminatorLen(s, j) ==
    IF j <= Len(s) /\ s[j] = BEL THEN 1
    ELSE IF j + 1 <= Len(s) /\ s[j] = ESC /\ s[j + 1] = BSL THEN 2
    ELSE 0

\* Length of the match of /\x1b\[[0-9;]*[a-zA-Z]/ anchored at i, 0 if none.
CsiLen(s, i) ==
    IF i + 1 <= Len(s) /\ s[i] = ESC /\ s[i + 1] = "["
    THEN LET j == SkipWhile(s, i + 2, AnsiDigits)
         IN  IF j <= Len(s) /\ s[j] \in AnsiLetters THEN j - i + 1 ELSE 0
    ELSE 0

\* Length of the match of /\x1b\][0-9;]*(?:\x07|\x1b\\)/ anchored at i.
OscLen(s, i) ==
    IF i + 1 <= Len(s) /\ s[i] = ESC /\ s[i + 1] = "]"
    THEN LET j == SkipWhile(s, i + 2, AnsiDigits)
             t == TerminatorLen(s, j)
         IN  IF t > 0 THEN j - i + t ELSE 0
    ELSE 0

\* Length of the match of /\x1b\][^\x07\x1b]*(?:\x07|\x1b\\)/ anchored at i.
OtherLen(s, i) ==
    IF i + 1 <= Len(s) /\ s[i] = ESC /\ s[i + 1] = "]"
    THEN LET j == SkipWhile(s, i + 2, AnsiChars \ {BEL, ESC})
             t == TerminatorLen(s, j)
         IN  IF t > 0 THEN j - i + t ELSE 0
    ELSE 0

PatternLen(p, s, i) ==
    CASE p = 1 -> CsiLen(s, i)
      [] p = 2 -> OscLen(s, i)
      [] p = 3 -> OtherLen(s, i)

\* text.replace(/p/g, ""): left to right, a match is removed and the scan
\* resumes after it; without a match the character is kept.
RECURSIVE ReplaceAll(_, _, _)
ReplaceAll(p, s, i) ==
    IF i > Len(s) THEN <<>>
    ELSE LET n == PatternLen(p, s, i)
         IN  IF n > 0 THEN ReplaceAll(p, s, i + n)
             ELSE <<s[i]>> \o ReplaceAll(p, s, i + 1)

stripAnsi(text) == ReplaceAll(3, ReplaceAll(2, ReplaceAll(1, text, 1), 1), 1)

stripAnsiFast(text) ==
    IF \A i \in 1..Len(text) : text[i] # ESC THEN text ELSE stripAnsi(text)

AnsiInit ==
    /\ ansiPc = "input"
    /\ ansiText \in SeqsUpTo(AnsiChars, MaxAnsiLen)
    /\ ansiOnce = <<>>
    /\ ansiTwice = <<>>

AnsiIdle ==
    /\ ansiPc = "idle"
    /\ ansiText = <<>>
    /\ ansiOnce = <<>>
    /\ ansiTwice = <<>>

\* The caller strips a text.
AnsiStrip ==
    /\ ansiPc = "input"
    /\ ansiOnce' = stripAnsiFast(ansiText)
    /\ ansiPc' = "once"
    /\ UNCHANGED <<ansiText, ansiTwice, notAnsi>>

\* The caller strips the stripped text again.
AnsiStripAgain ==
    /\ ansiPc = "once"
    /\ ansiTwice' = stripAnsiFast(ansiOnce)
    /\ ansiPc' = "twice"
    /\ UNCHANGED <<ansiText, ansiOnce, notAnsi>>

(***************************************************************************)
(* Build aggregator.                                                       *)
(*                                                                         *)
(* A line of build output is one of seven kinds, one for each way the      *)
(* scanner's patterns tell lines apart:                                    *)
(*   "unit"    "   Compiling foo v0.1"   unit start (and a SKIP_PATTERN)  *)
(*   "noise"   "Downloading bar"          another SKIP_PATTERN             *)
(*   "error"   "error[E0308]: mismatch"   ERROR_START_PATTERNS             *)
(*   "warning" "warning: unused"          WARNING_PATTERNS                 *)
(*   "blank"   "" or "   "                trim() === ""                    *)
(*   "cont"    "  --> src/main.rs:5:12"   /^\s/ or /^-->/                   *)
(*   "other"   "For more information"     none of these                    *)
(* A block, and a report, name input lines by their position.              *)
(***************************************************************************)

\* Most lines the line-by-line build specification feeds the scanner.
MaxBuildLines == 6
\* Most lines of an output the whole-call specification draws.
MaxCmdLines == 3

\* errors.slice(0, 5) and error.slice(0, 10) of the report.
MaxShownErrors == 5
MaxErrorLines == 10

BuildKinds == {"unit", "noise", "error", "warning", "blank", "cont", "other"}

BUILD_COMMANDS == {
    <<"c", "a", "r", "g", "o", " ", "b", "u", "i", "l", "d">>,
    <<"c", "a", "r", "g", "o", " ", "c", "h", "e", "c", "k">>,
    <<"b", "u", "n", " ", "b", "u", "i", "l", "d">>,
    <<"n", "p", "m", " ", "r", "u", "n", " ", "b", "u", "i", "l", "d">>,
    <<"y", "a", "r", "n", " ", "b", "u", "i", "l", "d">>,
    <<"p", "n", "p", "m", " ", "b", "u", "i", "l", "d">>,
    <<"t", "s", "c">>,
    <<"m", "a", "k", "e">>,
    <<"c", "m", "a", "k", "e">>,
    <<"g", "r", "a", "d", "l", "e">>,
    <<"m", "v", "n">>,
    <<"g", "o", " ", "b", "u", "i", "l", "d">>,
    <<"g", "o", " ", "i", "n", "s", "t", "a", "l", "l">>,
    <<"p", "y", "t", "h", "o", "n", " ", "s", "e", "t", "u", "p", ".", "p", "y", " ", "b", "u", "i", "l", "d">>,
    <<"p", "i", "p", " ", "i", "n", "s", "t", "a", "l", "l">>
}

CmdGoBuild == Str(<<"g", "o", " ", "b", "u", "i", "l", "d">>)
CmdLs      == Str(<<"l", "s">>)

\* The commands the whole-call specification tries: no command (undefined or
\* null), the empty string, build commands in several spellings, and commands
\* that are no build command.
CommandsTried == {
    Null,
    Str(<<>>),
    CmdLs,
    CmdGoBuild,
    Str(<<"G", "o", " ", "B", "u", "i", "l", "d", " ", ".", "/", "x">>),
    Str(<<"g", "o", " ", " ", "b", "u", "i", "l", "d">>),
    Str(<<"m", "a", "k", "e">>),
    Str(<<"M", "A", "K", "E", " ", "a", "l", "l">>),
    Str(<<"r", "e", "m", "a", "k", "e">>),
    Str(<<"t", "s", "c">>),
    Str(<<"c", "a", "r", "g", "o", " ", "t", "e", "s", "t">>),
    Str(<<"g", "i", "t", " ", "s", "t", "a", "t", "u", "s">>)
}

\* Mutant: the unit-start test never matches, so that a unit-start line reaches
\* the SKIP_PATTERNS test and is dropped uncounted.
isUnitStart_Never(line) == FALSE

\* line.match(/^\s*(Compiling|Checking|Building)\s+/)
isUnitStart(line) == line = "unit"
\* SKIP_PATTERNS.some(...): the unit-start words are among them.
isSkipLine(line) == line \in {"unit", "noise"}
isErrorStart(line) == line = "error"
isWarning(line) == line = "warning"
\* line.trim() === ""
isBlank(line) == line = "blank"
\* line.match(/^\s/) || line.match(/^-->/), for a line that is not blank
isContinuation(line) == line = "cont"

\* Mutant: the command is not lower-cased before the search.
isBuildCommand_CaseSensitive(command) ==
    IF command.null \/ Len(command.text) = 0 THEN FALSE
    ELSE \E bc \in BUILD_COMMANDS : includes(command.text, toLowerCase(bc))

\* command is a value of type string | undefined | null.
isBuildCommand(command) ==
    IF command.null \/ Len(command.text) = 0 THEN FALSE
    ELSE LET cmdLower == toLowerCase(command.text)
         IN  \E bc \in BUILD_COMMANDS : includes(cmdLower, toLowerCase(bc))

\* The scanner's variables before the first line.
BuildScanStart ==
    [compiled |-> 0, errors |-> <<>>, warnings |-> <<>>,
     inErrorBlock |-> FALSE, currentError |-> <<>>, blankCount |-> 0]

\* stats.errors.push([...currentError]); inErrorBlock = false; currentError = []
BuildCloseBlock(st) ==
    [st EXCEPT !.errors = Append(@, st.currentError),
               !.inErrorBlock = FALSE,
               !.currentError = <<>>]

\* Mutant: a blank line closes a block that holds 3 lines or more.
BuildScanLine_CloseAtThree(st, line, i) ==
    IF isUnitStart(line) THEN [st EXCEPT !.compiled = @ + 1]
    ELSE IF isSkipLine(line) THEN st
    ELSE IF isErrorStart(line) THEN
        [st EXCEPT !.errors = IF st.inErrorBlock /\ Len(st.currentError) > 0
                              THEN Append(@, st.currentError) ELSE @,
                   !.inErrorBlock = TRUE,
                   !.currentError = <<i>>,
                   !.blankCount = 0]
    ELSE IF isWarning(line) THEN [st EXCEPT !.warnings = Append(@, i)]
    ELSE IF st.inErrorBlock THEN
        IF isBlank(line) THEN
            LET counted == [st EXCEPT !.blankCount = @ + 1]
            IN  IF counted.blankCount >= 2 /\ Len(counted.currentError) >= 3
                THEN BuildCloseBlock(counted)
                ELSE [counted EXCEPT !.currentError = Append(@, i)]
        ELSE IF isContinuation(line) THEN
            [st EXCEPT !.currentError = Append(@, i), !.blankCount = 0]
        ELSE BuildCloseBlock(st)
    ELSE st

\* Mutant: the block continuation rule is tried before the warning rule.
BuildScanLine_BlockFirst(st, line, i) ==
    IF isUnitStart(line) THEN [st EXCEPT !.compiled = @ + 1]
    ELSE IF isSkipLine(line) THEN st
    ELSE IF isErrorStart(line) THEN
        [st EXCEPT !.errors = IF st.inErrorBlock /\ Len(st.currentError) > 0
                              THEN Append(@, st.currentError) ELSE @,
                   !.inErrorBlock = TRUE,
                   !.currentError = <<i>>,
                   !.blankCount = 0]
    ELSE IF isWarning(line) /\ ~st.inErrorBlock THEN [st EXCEPT !.warnings = Append(@, i)]
    ELSE IF st.inErrorBlock THEN
        IF isBlank(line) THEN
            LET counted == [st EXCEPT !.blankCount = @ + 1]
            IN  IF counted.blankCount >= 2 /\ Len(counted.currentError) > 3
                THEN BuildCloseBlock(counted)
                ELSE [counted EXCEPT !.currentError = Append(@, i)]
        ELSE IF isContinuation(line) THEN
            [st EXCEPT !.currentError = Append(@, i), !.blankCount = 0]
        ELSE BuildCloseBlock(st)
    ELSE st

\* One iteration of the loop over the lines: line is the i-th line.
BuildScanLine(st, line, i) ==
    IF isUnitStart(line) THEN [st EXCEPT !.compiled = @ + 1]
    ELSE IF isSkipLine(line) THEN st
    ELSE IF isErrorStart(line) THEN
        [st EXCEPT !.errors = IF st.inErrorBlock /\ Len(st.currentError) > 0
                              THEN Append(@, st.currentError) ELSE @,
                   !.inErrorBlock = TRUE,
                   !.currentError = <<i>>,
                   !.blankCount = 0]
    ELSE IF isWarning(line) THEN [st EXCEPT !.warnings = Append(@, i)]
    ELSE IF st.inErrorBlock THEN
        IF isBlank(line) THEN
            LET counted == [st EXCEPT !.blankCount = @ + 1]
            IN  IF counted.blankCount >= 2 /\ Len(counted.currentError) > 3
                THEN BuildCloseBlock(counted)
                ELSE [counted EXCEPT !.currentError = Append(@, i)]
        ELSE IF isContinuation(line) THEN
            [st EXCEPT !.currentError = Append(@, i), !.blankCount = 0]
        ELSE BuildCloseBlock(st)
    ELSE st

\* After the loop: flush the final error.
BuildFlushFinal(st) ==
    IF st.inErrorBlock /\ Len(st.currentError) > 0
    THEN [st EXCEPT !.errors = Append(@, st.currentError)]
    ELSE st

\* The lines of one error block in the report.
BuildShowError(error) ==
    [j \in 1..Len(Take(error, MaxErrorLines)) |-> <<"line", error[j]>>]
        \o (IF Len(error) > MaxErrorLines THEN <<<<"  ...", 0>>>> ELSE <<>>)

RECURSIVE BuildShowErrors(_)
BuildShowErrors(errors) ==
    IF errors = <<>> THEN <<>>
    ELSE BuildShowError(Head(errors)) \o BuildShowErrors(Tail(errors))

\* Mutant: the header is written also when there is no error block.
BuildFormat_HeaderAlways(st) ==
    IF Len(st.errors) = 0 /\ Len(st.warnings) = 0
    THEN Str(<<<<"[OK] Build successful", st.compiled>>>>)
    ELSE Str(
        <<<<"[ERROR]", Len(st.errors)>>>>
        \o BuildShowErrors(Take(st.errors, MaxShownErrors))
        \o (IF Len(st.errors) > MaxShownErrors
            THEN <<<<"... and more errors", Len(st.errors) - MaxShownErrors>>>>
            ELSE <<>>)
        \o (IF Len(st.warnings) > 0
            THEN <<<<"[WARN]", Len(st.warnings)>>>>
            ELSE <<>>))

\* Format output.  A report is the sequence of the entries joined by "\n":
\*   <<"[OK] Build successful", n>>  "[OK] Build successful (n units compiled)"
\*   <<"[ERROR]", k>>                "[ERROR] k error(s):"
\*   <<"line", i>>                   the i-th input line
\*   <<"  ...", 0>>                  "  ..."
\*   <<"... and more errors", m>>    "... and m more errors"
\*   <<"[WARN]", j>>                 "\n[WARN] j warning(s)"
BuildFormat(st) ==
    IF Len(st.errors) = 0 /\ Len(st.warnings) = 0
    THEN Str(<<<<"[OK] Build successful", st.compiled>>>>)
    ELSE Str(
        (IF Len(st.errors) > 0
         THEN <<<<"[ERROR]", Len(st.errors)>>>>
              \o BuildShowErrors(Take(st.errors, MaxShownErrors))
              \o (IF Len(st.errors) > MaxShownErrors
                  THEN <<<<"... and more errors", Len(st.errors) - MaxShownErrors>>>>
                  ELSE <<>>)
         ELSE <<>>)
        \o (IF Len(st.warnings) > 0
            THEN <<<<"[WARN]", Len(st.warnings)>>>>
            ELSE <<>>))

RECURSIVE BuildScan(_, _, _)
BuildScan(st, lines, i) ==
    IF i > Len(lines) THEN st
    ELSE BuildScan(BuildScanLine(st, lines[i], i), lines, i + 1)

\* output is the sequence of the lines of the text (output.split("\n"), which
\* is never empty).
filterBuildOutput(output, command) ==
    IF command.null \/ ~isBuildCommand(command) THEN Null
    ELSE BuildFormat(BuildFlushFinal(BuildScan(BuildScanStart, output, 1)))

BuildIdle ==
    /\ bPc = "idle"
    /\ bCommand = Null
    /\ bLines = <<>>
    /\ build = BuildScanStart
    /\ bResult = Null

\* filterBuildOutput is about to be called; its output arrives line by line.
BuildInit ==
    /\ bPc = "enter"
    /\ bCommand \in {CmdGoBuild, CmdLs}
    /\ bLines = <<>>
    /\ build = BuildScanStart
    /\ bResult = Null

\* filterBuildOutput is about to be called on a whole output.
BuildCmdInit ==
    /\ bPc = "call"
    /\ bCommand \in CommandsTried
    /\ bLines \in SeqsUpTo(BuildKinds, MaxCmdLines) \ {<<>>}
    /\ build = BuildScanStart
    /\ bResult = Null

\* The guard of filterBuildOutput: null unless the command is a build command.
BuildEnter ==
    /\ bPc = "enter"
    /\ IF bCommand.null \/ ~isBuildCommand(bCommand)
       THEN bPc' = "done" /\ bResult' = Null
       ELSE bPc' = "scan" /\ bResult' = bResult
    /\ UNCHANGED <<bCommand, bLines, build, notBuild>>

\* The loop body on the next line of the output, whatever it is.
BuildLine ==
    /\ bPc = "scan"
    /\ Len(bLines) < MaxBuildLines
    /\ \E line \in BuildKinds :
        /\ bLines' = Append(bLines, line)
        /\ build' = BuildScanLine(build, line, Len(bLines) + 1)
    /\ UNCHANGED <<bPc, bCommand, bResult, notBuild>>

\* End of the output (which has at least one line): flush and format.
BuildEnd ==
    /\ bPc = "scan"
    /\ Len(bLines) >= 1
    /\ build' = BuildFlushFinal(build)
    /\ bResult' = BuildFormat(build')
    /\ bPc' = "done"
    /\ UNCHANGED <<bCommand, bLines, notBuild>>

\* One whole call of filterBuildOutput.
BuildCall ==
    /\ bPc = "call"
    /\ bResult' = filterBuildOutput(bLines, bCommand)
    /\ bPc' = "done"
    /\ UNCHANGED <<bCommand, bLines, build, notBuild>>

(***************************************************************************)
(* Test aggregator (src/techniques/test-output.ts).                        *)
(*                                                                         *)
(* A line of test output is a record [kind, a, b, c]; the kinds, one for   *)
(* each way the patterns tell lines apart, with a line of each:            *)
(*   "cargo_ok"      "test result: ok. a passed; b failed; 0 ignored"      *)
(*   "cargo_FAILED"  "test result: FAILED. a passed; b failed; 0 ignored"  *)
(*   "counts"        "a passed, b failed, c skipped"                       *)
(*   "test_ok"       "test foo ... ok"                                     *)
(*   "test_FAILED"   "test foo ... FAILED"                                 *)
(*   "FAIL"          "FAIL src/a.test.ts"                                  *)
(*   "blank"         "" or "  "                                            *)
(*   "cont"          "    at Object.<anonymous> (a.js:1:1)"                *)
(*   "other"         "running 2 tests"                                     *)
(* No summary pattern matches across two of these lines, so a match        *)
(* against the whole text is a match in its first matching line.           *)
(***************************************************************************)

\* Most lines of an output the whole-call test specification draws.
MaxTestLines == 3
\* Most lines of an output the failure scanner is stepped through.
MaxScanLines == 6

\* summary.failures.slice(0, 5), lines.slice(1, 4) and lines.length > 4.
MaxShownFailures == 5
MaxFailureLines == 4

TLine(kind, a, b, c) == [kind |-> kind, a |-> a, b |-> b, c |-> c]
Plain(kind) == TLine(kind, 0, 0, 0)

PlainTestLines ==
    {Plain(k) : k \in {"test_ok", "test_FAILED", "FAIL", "blank", "cont", "other"}}

\* The lines the whole-call specification draws from.
TestLinesTried ==
    {TLine(k, a, b, 0) : k \in {"cargo_ok", "cargo_FAILED"}, a \in {0, 3}, b \in {0, 1}}
        \cup {TLine("counts", 5, 2, 1)}
        \cup PlainTestLines

\* The lines the failure scanner is stepped through.
ScanLinesTried ==
    {Plain(k) : k \in {"test_FAILED", "FAIL", "blank", "cont", "other"}}

TEST_COMMANDS == {
    <<"t", "e", "s", "t">>,
    <<"j", "e", "s", "t">>,
    <<"v", "i", "t", "e", "s", "t">>,
    <<"p", "y", "t", "e", "s", "t">>,
    <<"c", "a", "r", "g", "o", " ", "t", "e", "s", "t">>,
    <<"b", "u", "n", " ", "t", "e", "s", "t">>,
    <<"g", "o", " ", "t", "e", "s", "t">>,
    <<"m", "o", "c", "h", "a">>,
    <<"a", "v", "a">>,
    <<"t", "a", "p">>
}

CmdCargoTest == Str(<<"c", "a", "r", "g", "o", " ", "t", "e", "s", "t">>)

\* [\s|;&]: the characters that may bound a runner name.
TokenBounds == {" ", "\t", "|", ";", "&"}

\* Mutant: the character after the name is not looked at.
TokenOccurs_Prefix(cmdLower, tc) ==
    \E i \in 1..(Len(cmdLower) - Len(tc) + 1) :
        /\ SubSeq(cmdLower, i, i + Len(tc) - 1) = tc
        /\ (i = 1 \/ cmdLower[i - 1] \in TokenBounds)

\* new RegExp(`(?:^|[\s|;&])${escaped}(?:[\s|;&]|$)`).test(cmdLower)
TokenOccurs(cmdLower, tc) ==
    \E i \in 1..(Len(cmdLower) - Len(tc) + 1) :
        /\ SubSeq(cmdLower, i, i + Len(tc) - 1) = tc
        /\ (i = 1 \/ cmdLower[i - 1] \in TokenBounds)
        /\ (i + Len(tc) - 1 = Len(cmdLower) \/ cmdLower[i + Len(tc)] \in TokenBounds)

isTestCommand(command) ==
    IF command.null \/ Len(command.text) = 0 THEN FALSE
    ELSE LET cmdLower == toLowerCase(command.text)
         IN  \E tc \in TEST_COMMANDS : TokenOccurs(cmdLower, toLowerCase(tc))

\* A capture group that did not take part in the match, or holds no digits:
\* parseInt gives NaN.
NaN == -1

\* The capture groups <<match[1], match[2], match[3]>> of TEST_RESULT_PATTERNS[p]
\* in the line, <<>> when it does not match.  The first pattern has the groups
\* (status word, passed, failed), the others (passed, failed, skipped).
PatternGroups(p, line) ==
    CASE p = 1 /\ line.kind \in {"cargo_ok", "cargo_FAILED"} -> <<NaN, line.a, line.b>>
      [] p = 2 /\ line.kind \in {"cargo_ok", "cargo_FAILED"} -> <<line.a, NaN, NaN>>
      [] p = 2 /\ line.kind = "counts" -> <<line.a, line.b, line.c>>
      [] p = 3 /\ line.kind \in {"cargo_ok", "cargo_FAILED", "counts"} -> <<line.a, NaN, NaN>>
      [] OTHER -> <<>>

\* parseInt(group, 10) || 0
ParseIntOr0(group) == IF group = NaN THEN 0 ELSE group

\* output.match(pattern): the groups of the leftmost match in the text.
RECURSIVE TextMatch(_, _, _)
TextMatch(p, lines, i) ==
    IF i > Len(lines) THEN <<>>
    ELSE IF PatternGroups(p, lines[i]) # <<>> THEN PatternGroups(p, lines[i])
    ELSE TextMatch(p, lines, i + 1)

\* The summary of the first pattern, from p on, that matches the text; the
\* fields of an empty summary are undefined, and read as 0 by the caller.
RECURSIVE extractTestStats(_, _)
extractTestStats(lines, p) ==
    IF p > 4 THEN [passed |-> 0, failed |-> 0, skipped |-> 0]
    ELSE LET match == TextMatch(p, lines, 1)
         IN  IF match # <<>>
             THEN [passed  |-> ParseIntOr0(match[1]),
                   failed  |-> ParseIntOr0(match[2]),
                   skipped |-> ParseIntOr0(match[3])]
             ELSE extractTestStats(lines, p + 1)

\* A line given by its characters, read with the patterns themselves.
TextLine(chars) == [kind |-> "text", a |-> 0, b |-> 0, c |-> 0, chars |-> chars]

\* The marks of the runners, each one character.
HeavyBullet == "U+25CF"
CheckMark == "U+2713"
HeavyCheckMark == "U+2714"
BallotX == "U+2717"
MultiplicationX == "U+2715"

FAILURE_START_PATTERNS ==
    << <<Bol, Lit(<<"F", "A", "I", "L">>), Many(SpaceChar, 1)>>,
       <<Bol, Lit(<<"F", "A", "I", "L", "E", "D">>), Many(SpaceChar, 1)>>,
       <<Bol, Many(SpaceChar, 0), Lit(<<HeavyBullet>>), Many(SpaceChar, 1)>>,
       <<Bol, Many(SpaceChar, 0), Lit(<<MultiplicationX>>), Many(SpaceChar, 1)>>,
       <<Lit(<<"t", "e", "s", "t">>), Many(SpaceChar, 1), Many(WordChar, 1), Many(SpaceChar, 1),
         Lit(<<".", ".", ".">>), Many(SpaceChar, 0), Lit(<<"F", "A", "I", "L", "E", "D">>)>>,
       <<Lit(<<"t", "h", "r", "e", "a", "d">>), Many(SpaceChar, 1), Lit(<<"'">>), Many(WordChar, 1), Lit(<<"'">>),
         Many(SpaceChar, 1), Lit(<<"p", "a", "n", "i", "c", "k", "e", "d">>)>> >>

\* /\b(ok|PASS|U+2713|U+2714)\b/ and /\b(FAIL|fail|U+2717|U+2715)\b/
PASS_MARKER ==
    <<Wb, Alt(<< <<Lit(<<"o", "k">>)>>, <<Lit(<<"P", "A", "S", "S">>)>>, <<Lit(<<CheckMark>>)>>,
                 <<Lit(<<HeavyCheckMark>>)>> >>), Wb>>
FAIL_MARKER ==
    <<Wb, Alt(<< <<Lit(<<"F", "A", "I", "L">>)>>, <<Lit(<<"f", "a", "i", "l">>)>>, <<Lit(<<BallotX>>)>>,
                 <<Lit(<<MultiplicationX>>)>> >>), Wb>>

\* /^\s/ and /^-/
FAILURE_CONTINUATION_PATTERNS == << <<Bol, OneOf(SpaceChar)>>, <<Bol, Lit(<<"-">>)>> >>

\* line.match(/\b(ok|PASS|...)\b/) and line.match(/\b(FAIL|fail|...)\b/)
hasPassMarker(line) ==
    IF line.kind = "text" THEN Test(PASS_MARKER, line.chars)
    ELSE line.kind \in {"cargo_ok", "test_ok"}
hasFailMarker(line) ==
    IF line.kind = "text" THEN Test(FAIL_MARKER, line.chars)
    ELSE line.kind = "FAIL"

isFailureStart(line) ==
    IF line.kind = "text" THEN TestSome(FAILURE_START_PATTERNS, line.chars)
    ELSE line.kind \in {"FAIL", "test_FAILED"}
\* line.trim() === ""
isBlankTestLine(line) ==
    IF line.kind = "text" THEN trim(line.chars) = <<>>
    ELSE line.kind = "blank"
\* line.match(/^\s/) || line.match(/^-/), for a line that is not blank
isFailureContinuation(line) ==
    IF line.kind = "text" THEN TestSome(FAILURE_CONTINUATION_PATTERNS, line.chars)
    ELSE line.kind = "cont"

\* Extract stats from output, with the fallback of counting by hand.
TestStats(lines) ==
    LET stats == extractTestStats(lines, 1)
    IN  IF stats.passed = 0 /\ stats.failed = 0
        THEN [stats EXCEPT
                !.passed = Cardinality({i \in 1..Len(lines) : hasPassMarker(lines[i])}),
                !.failed = Cardinality({i \in 1..Len(lines) : hasFailMarker(lines[i])})]
        ELSE stats

\* The failure scanner's variables before the first line.
TestScanStart ==
    [failures |-> <<>>, inFailure |-> FALSE, currentFailure |-> <<>>, blankCount |-> 0]

\* summary.failures.push(currentFailure.join("\n")); inFailure = false; ...
TestCloseBlock(st) ==
    [st EXCEPT !.failures = Append(@, st.currentFailure),
               !.inFailure = FALSE,
               !.currentFailure = <<>>]

\* Mutant: a continuation line does not reset the count of blank lines.
TestScanLine_NoReset(st, line, i) ==
    IF isFailureStart(line) THEN
        [st EXCEPT !.failures = IF st.inFailure /\ Len(st.currentFailure) > 0
                                THEN Append(@, st.currentFailure) ELSE @,
                   !.inFailure = TRUE,
                   !.currentFailure = <<i>>,
                   !.blankCount = 0]
    ELSE IF st.inFailure THEN
        IF isBlankTestLine(line) THEN
            LET counted == [st EXCEPT !.blankCount = @ + 1]
            IN  IF counted.blankCount >= 2 /\ Len(counted.currentFailure) > 3
                THEN TestCloseBlock(counted)
                ELSE [counted EXCEPT !.currentFailure = Append(@, i)]
        ELSE IF isFailureContinuation(line) THEN
            [st EXCEPT !.currentFailure = Append(@, i)]
        ELSE TestCloseBlock(st)
    ELSE st

\* One iteration of the failure scanner's loop: line is the i-th line.
TestScanLine(st, line, i) ==
    IF isFailureStart(line) THEN
        [st EXCEPT !.failures = IF st.inFailure /\ Len(st.currentFailure) > 0
                                THEN Append(@, st.currentFailure) ELSE @,
                   !.inFailure = TRUE,
                   !.currentFailure = <<i>>,
                   !.blankCount = 0]
    ELSE IF st.inFailure THEN
        IF isBlankTestLine(line) THEN
            LET counted == [st EXCEPT !.blankCount = @ + 1]
            IN  IF counted.blankCount >= 2 /\ Len(counted.currentFailure) > 3
                THEN TestCloseBlock(counted)
                ELSE [counted EXCEPT !.currentFailure = Append(@, i)]
        ELSE IF isFailureContinuation(line) THEN
            [st EXCEPT !.currentFailure = Append(@, i), !.blankCount = 0]
        ELSE TestCloseBlock(st)
    ELSE st

\* Mutant: the failure still open after the last line is not flushed.
TestFlushFinal_Forget(st) == st

TestFlushFinal(st) ==
    IF st.inFailure /\ Len(st.currentFailure) > 0
    THEN [st EXCEPT !.failures = Append(@, st.currentFailure)]
    ELSE st

RECURSIVE TestScan(_, _, _)
TestScan(st, lines, i) ==
    IF i > Len(lines) THEN st
    ELSE TestScan(TestScanLine(st, lines[i], i), lines, i + 1)

\* The non-blank lines among lines.slice(1, 4) of a failure.
RECURSIVE TestShowRest(_, _, _)
TestShowRest(lines, failure, j) ==
    IF j > Len(failure) \/ j > MaxFailureLines THEN <<>>
    ELSE (IF isBlankTestLine(lines[failure[j]]) THEN <<>> ELSE <<<<"     ", failure[j]>>>>)
         \o TestShowRest(lines, failure, j + 1)

TestShowFailure(lines, failure) ==
    <<<<"   - ", failure[1]>>>>
        \o TestShowRest(lines, failure, 2)
        \o (IF Len(failure) > MaxFailureLines
            THEN <<<<"     ... (more lines)", Len(failure) - MaxFailureLines>>>>
            ELSE <<>>)

RECURSIVE TestShowFailures(_, _)
TestShowFailures(lines, failures) ==
    IF failures = <<>> THEN <<>>
    ELSE TestShowFailure(lines, Head(failures)) \o TestShowFailures(lines, Tail(failures))

\* Format output.  A report is the sequence of the entries joined by "\n":
\*   <<"Test Results:", 0>>
\*   <<"   PASS:", p>>               "   PASS: p passed"
\*   <<"   FAIL:", f>>               "   FAIL: f failed"
\*   <<"   SKIP:", s>>               "   SKIP: s skipped"
\*   <<"   Failures:", 0>>           "\n   Failures:"
\*   <<"   - ", i>>                  the i-th input line cut to 70 characters
\*   <<"     ", i>>                  the i-th input line cut to 65 characters
\*   <<"     ... (more lines)", k>>  "     ... (k more lines)"
\*   <<"   ... and more failures", m>>
TestFormat(lines, summary, failures) ==
    Str(<<<<"Test Results:", 0>>, <<"   PASS:", summary.passed>>>>
        \o (IF summary.failed > 0 THEN <<<<"   FAIL:", summary.failed>>>> ELSE <<>>)
        \o (IF summary.skipped > 0 THEN <<<<"   SKIP:", summary.skipped>>>> ELSE <<>>)
        \o (IF summary.failed > 0 /\ Len(failures) > 0
            THEN <<<<"   Failures:", 0>>>>
                 \o TestShowFailures(lines, Take(failures, MaxShownFailures))
                 \o (IF Len(failures) > MaxShownFailures
                     THEN <<<<"   ... and more failures", Len(failures) - MaxShownFailures>>>>
                     ELSE <<>>)
            ELSE <<>>))

\* output is the sequence of the lines of the text.
aggregateTestOutput(output, command) ==
    IF command.null \/ ~isTestCommand(command) THEN Null
    ELSE LET summary == TestStats(output)
             failures == IF summary.failed > 0
                         THEN TestFlushFinal(TestScan(TestScanStart, output, 1)).failures
                         ELSE <<>>
         IN  TestFormat(output, summary, failures)

NoSummary == [passed |-> 0, failed |-> 0, skipped |-> 0]

TestIdle ==
    /\ tPc = "idle"
    /\ tCommand = Null
    /\ tLines = <<>>
    /\ tSummary = NoSummary
    /\ tIdx = 0
    /\ test = TestScanStart
    /\ tResult = Null

\* aggregateTestOutput is about to be called on a whole output.
TestInit ==
    /\ tPc = "call"
    /\ tCommand \in {CmdCargoTest, CmdLs}
    /\ tLines \in SeqsUpTo(TestLinesTried, MaxTestLines) \ {<<>>}
    /\ tSummary = NoSummary
    /\ tIdx = 0
    /\ test = TestScanStart
    /\ tResult = Null

\* aggregateTestOutput is about to be called; its failure scanner is stepped.
TestScanInit ==
    /\ tPc = "enter"
    /\ tCommand \in {CmdCargoTest, CmdLs}
    /\ tLines \in SeqsUpTo(ScanLinesTried, MaxScanLines) \ {<<>>}
    /\ tSummary = NoSummary
    /\ tIdx = 0
    /\ test = TestScanStart
    /\ tResult = Null

\* One whole call of aggregateTestOutput.
TestCall ==
    /\ tPc = "call"
    /\ tResult' = aggregateTestOutput(tLines, tCommand)
    /\ tPc' = "done"
    /\ UNCHANGED <<tCommand, tLines, tSummary, tIdx, test, notTest>>

\* The guard, the stats, and the decision to scan for failures.
TestEnter ==
    /\ tPc = "enter"
    /\ IF tCommand.null \/ ~isTestCommand(tCommand)
       THEN tPc' = "done" /\ tSummary' = tSummary
       ELSE /\ tSummary' = TestStats(tLines)
            /\ tPc' = IF tSummary'.failed > 0 THEN "scan" ELSE "format"
    /\ UNCHANGED <<tCommand, tLines, tIdx, test, tResult, notTest>>

\* The failure scanner's loop body on the next line.
TestLine ==
    /\ tPc = "scan"
    /\ tIdx < Len(tLines)
    /\ tIdx' = tIdx + 1
    /\ test' = TestScanLine(test, tLines[tIdx + 1], tIdx + 1)
    /\ UNCHANGED <<tPc, tCommand, tLines, tSummary, tResult, notTest>>

\* After the last line: flush the open failure.
TestEnd ==
    /\ tPc = "scan"
    /\ tIdx = Len(tLines)
    /\ test' = TestFlushFinal(test)
    /\ tPc' = "format"
    /\ UNCHANGED <<tCommand, tLines, tSummary, tIdx, tResult, notTest>>

\* Format output.
TestReport ==
    /\ tPc = "format"
    /\ tResult' = TestFormat(tLines, tSummary, test.failures)
    /\ tPc' = "done"
    /\ UNCHANGED <<tCommand, tLines, tSummary, tIdx, test, notTest>>

(***************************************************************************)
(* Path compactor (compactPath of the search grouper and of the linter     *)
(* aggregator, which are the same function).                               *)
(***************************************************************************)

\* Longest path, and largest limit, the path specification draws besides the
\* example path and the callers' limit.
MaxPathLen == 6
MaxPathLimit == 4

\* compactPath(file, 50) of groupSearchResults.
SearchPathLimit == 50

PathChars == {"/", "a", "b"}

\* "/a/b/c/d/e/file.ts"
ExamplePath ==
    <<"/", "a", "/", "b", "/", "c", "/", "d", "/", "e", "/",
      "f", "i", "l", "e", ".", "t", "s">>

\* Mutant: the middle of the compacted form is taken one part too early.
compactPath_OffByOne(path, maxLength) ==
    IF Len(path) <= maxLength THEN path
    ELSE LET parts == Split(path, "/")
         IN  IF Len(parts) <= 3 THEN path
             ELSE parts[1] \o <<"/", ".", ".", ".", "/">>
                      \o parts[Len(parts) - 2] \o <<"/">> \o parts[Len(parts)]

\* parts[0], parts[parts.length - 2] and parts[parts.length - 1] are, counting
\* from 1, parts[1], parts[Len(parts) - 1] and parts[Len(parts)].
compactPath(path, maxLength) ==
    IF Len(path) <= maxLength THEN path
    ELSE LET parts == Split(path, "/")
         IN  IF Len(parts) <= 3 THEN path
             ELSE parts[1] \o <<"/", ".", ".", ".", "/">>
                      \o parts[Len(parts) - 1] \o <<"/">> \o parts[Len(parts)]

PathIdle ==
    /\ pPc = "idle"
    /\ pPath = <<>>
    /\ pMax = 0
    /\ pResult = <<>>

PathInit ==
    /\ pPc = "call"
    /\ pPath \in SeqsUpTo(PathChars, MaxPathLen) \cup {ExamplePath}
    /\ pMax \in (0..MaxPathLimit) \cup {SearchPathLimit}
    /\ pResult = <<>>

\* One call of compactPath.
PathCompact ==
    /\ pPc = "call"
    /\ pResult' = compactPath(pPath, pMax)
    /\ pPc' = "done"
    /\ UNCHANGED <<pPath, pMax, notPath>>

(***************************************************************************)
(* Git compactor: compactStatus (src/techniques/git.ts).                   *)
(*                                                                         *)
(* The output is a sequence of characters.  A report is a record           *)
(* [clean, lines]: "Clean working tree" when clean, else its lines, each   *)
(* a record [tag, n, text]:                                                *)
(*   "Branch:"     "Branch: <text>"                                        *)
(*   "Staged:", "Modified:", "Untracked:"   "<tag> n files"                *)
(*   "file"        "  <text>"                                              *)
(*   "more"        "  ... +n more"                                         *)
(*   "Conflicts:"  "[WARN] Conflicts: n files"                             *)
(***************************************************************************)

\* Longest output the status specification draws.
MaxStatusLen == 5

\* stagedFiles.slice(0, 5), modifiedFiles.slice(0, 5), untrackedFiles.slice(0, 3)
MaxStagedShown == 5
MaxModifiedShown == 5
MaxUntrackedShown == 3

StatusChars == {" ", "\t", "\n", "M", "?", "#", "f"}

\* line.match(/## (.+)/)[1].split("...")[0], or the name as it was when the
\* line does not match.
StatusBranch(line, branchName) ==
    LET at == indexOf(line, <<"#", "#", " ">>)
    IN  IF at = 0 \/ at + 3 > Len(line) THEN branchName
        ELSE LET rest == SubSeq(line, at + 3, Len(line))
                 dots == indexOf(rest, <<".", ".", ".">>)
             IN  IF dots = 0 THEN rest ELSE SubSeq(rest, 1, dots - 1)

StatusStart ==
    [staged |-> 0, modified |-> 0, untracked |-> 0, conflicts |-> 0,
     stagedFiles |-> <<>>, modifiedFiles |-> <<>>, untrackedFiles |-> <<>>,
     branchName |-> <<>>]

\* Mutant: a line that was counted as staged is not tested for the worktree
\* column.
StatusLine_Exclusive(stats, line) ==
    IF startsWith(line, <<"#", "#">>)
    THEN [stats EXCEPT !.branchName = StatusBranch(line, @)]
    ELSE IF Len(line) < 3 THEN stats
    ELSE LET indexStatus == line[1]
             worktreeStatus == line[2]
             filename == SubSeq(line, 4, Len(line))
         IN  IF indexStatus \in {"M", "A", "D", "R", "C"}
             THEN [stats EXCEPT !.staged = @ + 1,
                                !.stagedFiles = Append(@, filename)]
             ELSE IF indexStatus = "U"
             THEN [stats EXCEPT !.conflicts = @ + 1]
             ELSE IF worktreeStatus \in {"M", "D"}
             THEN [stats EXCEPT !.modified = @ + 1,
                                !.modifiedFiles = Append(@, filename)]
             ELSE IF indexStatus = "?" /\ worktreeStatus = "?"
             THEN [stats EXCEPT !.untracked = @ + 1,
                                !.untrackedFiles = Append(@, filename)]
             ELSE stats

\* One iteration of the loop over the lines.
StatusLine(stats, line) ==
    IF startsWith(line, <<"#", "#">>)
    THEN [stats EXCEPT !.branchName = StatusBranch(line, @)]
    ELSE IF Len(line) < 3 THEN stats
    ELSE LET indexStatus == line[1]
             worktreeStatus == line[2]
             filename == SubSeq(line, 4, Len(line))
             s1 == IF indexStatus \in {"M", "A", "D", "R", "C"}
                   THEN [stats EXCEPT !.staged = @ + 1,
                                      !.stagedFiles = Append(@, filename)]
                   ELSE stats
             s2 == IF indexStatus = "U"
                   THEN [s1 EXCEPT !.conflicts = @ + 1]
                   ELSE s1
             s3 == IF worktreeStatus \in {"M", "D"}
                   THEN [s2 EXCEPT !.modified = @ + 1,
                                   !.modifiedFiles = Append(@, filename)]
                   ELSE s2
         IN  IF indexStatus = "?" /\ worktreeStatus = "?"
             THEN [s3 EXCEPT !.untracked = @ + 1,
                             !.untrackedFiles = Append(@, filename)]
             ELSE s3

RECURSIVE StatusScan(_, _, _)
StatusScan(stats, lines, i) ==
    IF i > Len(lines) THEN stats
    ELSE StatusScan(StatusLine(stats, lines[i]), lines, i + 1)

StatusEntry(tag, n, text) == [tag |-> tag, n |-> n, text |-> text]

\* One bucket of the summary: its count, its first files, and the rest.
StatusBucket(tag, count, files, shown) ==
    IF count > 0
    THEN <<StatusEntry(tag, count, <<>>)>>
         \o [j \in 1..Len(Take(files, shown)) |-> StatusEntry("file", 0, files[j])]
         \o (IF count > shown THEN <<StatusEntry("more", count - shown, <<>>)>> ELSE <<>>)
    ELSE <<>>

\* result.trim(): the report starts with "Branch:" and ends with "\n"; what
\* trim still removes is the whitespace that ends the text of the last line.
StatusTrim(entries) ==
    [entries EXCEPT ![Len(entries)] = [@ EXCEPT !.text = trimEnd(@)]]

\* Build summary: its lines before the trim.
StatusEntries(stats) ==
    <<StatusEntry("Branch:", 0, stats.branchName)>>
    \o StatusBucket("Staged:", stats.staged, stats.stagedFiles, MaxStagedShown)
    \o StatusBucket("Modified:", stats.modified, stats.modifiedFiles, MaxModifiedShown)
    \o StatusBucket("Untracked:", stats.untracked, stats.untrackedFiles, MaxUntrackedShown)
    \o (IF stats.conflicts > 0
        THEN <<StatusEntry("Conflicts:", stats.conflicts, <<>>)>>
        ELSE <<>>)

StatusSummary(stats) == StatusTrim(StatusEntries(stats))

CleanWorkingTree == [clean |-> TRUE, lines |-> <<>>]

\* Mutant: the only line is compared with "" without being trimmed.
compactStatus_NoTrim(output) ==
    LET lines == Split(output, "\n")
    IN  IF Len(lines) = 0 \/ (Len(lines) = 1 /\ lines[1] = <<>>)
        THEN CleanWorkingTree
        ELSE [clean |-> FALSE, lines |-> StatusSummary(StatusScan(StatusStart, lines, 1))]

compactStatus(output) ==
    LET lines == Split(output, "\n")
    IN  IF Len(lines) = 0 \/ (Len(lines) = 1 /\ trim(lines[1]) = <<>>)
        THEN CleanWorkingTree
        ELSE [clean |-> FALSE, lines |-> StatusSummary(StatusScan(StatusStart, lines, 1))]

StatusIdle ==
    /\ sPc = "idle"
    /\ sOutput = <<>>
    /\ sResult = CleanWorkingTree

StatusInit ==
    /\ sPc = "call"
    /\ sOutput \in SeqsUpTo(StatusChars, MaxStatusLen)
    /\ sResult = CleanWorkingTree

\* One call of compactStatus.
StatusCompact ==
    /\ sPc = "call"
    /\ sResult' = compactStatus(sOutput)
    /\ sPc' = "done"
    /\ UNCHANGED <<sOutput, notStatus>>

(***************************************************************************)
(* Search grouper: groupSearchResults (src/unnamed/part_001).              *)
(*                                                                         *)
(* A line of the output is a record [kind, file]: kind "match" for a line  *)
(* "file:12:content" that /^(.+?):(\d+)?:(.+)$/ matches, "nomatch" for a   *)
(* line it does not match ("Binary file x matches"), "blank" for a line    *)
(* of whitespace.  Files are numbered in the order of localeCompare.  The  *)
(* report is a sequence of records [tag, a, b]:                            *)
(*   "header"   "a matches in b files:\n"                                  *)
(*   "file"     "> <compacted path of file a> (b matches):"                *)
(*   "match"    "    <line number>: <content>" of the a-th input line,     *)
(*              the content trimmed and cut to 70 characters               *)
(*   "more"     "  +a more"                                                *)
(*   "blank"    ""                                                         *)
(*   "trailer"  "... +a more"                                              *)
(***************************************************************************)

\* Most lines, and most lines that are no match, of a search output drawn.
MaxSearchLines == 11
MaxNoMatchLines == 1
\* The files of the matches drawn, numbered in the order of localeCompare.
SearchFilesTried == {1, 2}
\* The small result cap tried besides the default.
SmallMaxResults == 2

\* maxResults: number = 50
DefaultMaxResults == 50
\* matches.slice(0, 10)
MaxFileMatches == 10

SLine(kind, file) == [kind |-> kind, file |-> file]

SearchLinesTried ==
    {SLine("match", f) : f \in SearchFilesTried} \cup {SLine("nomatch", 0)}

SEntry(tag, a, b) == [tag |-> tag, a |-> a, b |-> b]

\* The elements of a set of numbers in increasing order.
RECURSIVE Sorted(_)
Sorted(S) ==
    IF S = {} THEN <<>>
    ELSE LET m == CHOOSE x \in S : \A y \in S : x <= y
         IN  <<m>> \o Sorted(S \ {m})

\* Parse search results: the positions of the lines that match, in order.
SearchResults(lines) ==
    SelectSeq([i \in 1..Len(lines) |-> i], LAMBDA i : lines[i].kind = "match")

\* byFile.get(file): the results of one file, in order.
SearchMatchesOf(lines, file) ==
    SelectSeq([i \in 1..Len(lines) |-> i],
              LAMBDA i : lines[i].kind = "match" /\ lines[i].file = file)

\* Array.from(byFile.entries()).sort(...): the files with results, sorted.
SearchFiles(lines) ==
    Sorted({f \in SearchFilesTried : \E i \in 1..Len(lines) : lines[i] = SLine("match", f)})

\* Mutant: the "+K more" line is written for a file with 10 matches or more.
SearchShowFile_AtTen(lines, file) ==
    LET matches == SearchMatchesOf(lines, file)
        shownMatches == Take(matches, MaxFileMatches)
    IN  <<SEntry("file", file, Len(matches))>>
        \o [k \in 1..Len(shownMatches) |-> SEntry("match", shownMatches[k], 0)]
        \o (IF Len(matches) >= MaxFileMatches
            THEN <<SEntry("more", Len(matches) - MaxFileMatches, 0)>>
            ELSE <<>>)
        \o <<SEntry("blank", 0, 0)>>

\* The body of the loop over the files: the lines written for one file.
SearchShowFile(lines, file) ==
    LET matches == SearchMatchesOf(lines, file)
        shownMatches == Take(matches, MaxFileMatches)
    IN  <<SEntry("file", file, Len(matches))>>
        \o [k \in 1..Len(shownMatches) |-> SEntry("match", shownMatches[k], 0)]
        \o (IF Len(matches) > MaxFileMatches
            THEN <<SEntry("more", Len(matches) - MaxFileMatches, 0)>>
            ELSE <<>>)
        \o <<SEntry("blank", 0, 0)>>

\* The loop over the sorted files from the k-th on, with `shown` matches
\* written so far: [text, shown] at the end of the loop.
RECURSIVE SearchShowFiles(_, _, _, _, _)
SearchShowFiles(lines, files, k, shown, maxResults) ==
    IF k > Len(files) \/ shown >= maxResults
    THEN [text |-> <<>>, shown |-> shown]
    ELSE LET n == Len(Take(SearchMatchesOf(lines, files[k]), MaxFileMatches))
             rest == SearchShowFiles(lines, files, k + 1, shown + n, maxResults)
         IN  [text |-> SearchShowFile(lines, files[k]) \o rest.text,
              shown |-> rest.shown]

\* output is the sequence of the lines of the text.
groupSearchResults(output, maxResults) ==
    LET results == SearchResults(output)
        files == SearchFiles(output)
        body == SearchShowFiles(output, files, 1, 0, maxResults)
    IN  IF Len(results) = 0 THEN Null
        ELSE Str(<<SEntry("header", Len(results), Len(files))>>
                 \o body.text
                 \o (IF Len(results) > body.shown
                     THEN <<SEntry("trailer", Len(results) - body.shown, 0)>>
                     ELSE <<>>))

SearchIdle ==
    /\ gPc = "idle"
    /\ gOutput = <<>>
    /\ gMaxResults = 0
    /\ gResult = Null

SearchInit ==
    /\ gPc = "read"
    /\ gOutput = <<>>
    /\ gMaxResults = 0
    /\ gResult = Null

\* The text to group gets one more line.
SearchLine ==
    /\ gPc = "read"
    /\ Len(gOutput) < MaxSearchLines
    /\ \E line \in SearchLinesTried :
          /\ line.kind = "nomatch" =>
                Count(gOutput, {SLine("nomatch", 0)}) < MaxNoMatchLines
          /\ gOutput' = Append(gOutput, line)
    /\ UNCHANGED <<gPc, gMaxResults, gResult, notSearch>>

\* One call of groupSearchResults on the text, with the default cap or a
\* small one.
SearchGroup ==
    /\ gPc = "read"
    /\ \E maxResults \in {SmallMaxResults, DefaultMaxResults} :
          /\ gMaxResults' = maxResults
          /\ gResult' = groupSearchResults(gOutput, maxResults)
    /\ gPc' = "done"
    /\ UNCHANGED <<gOutput, notSearch>>

(***************************************************************************)
(* Source filter: filterMinimal, filterAggressive, filterSourceCode and    *)
(* smartTruncate (src/unnamed/part_002).                                   *)
(*                                                                         *)
(* A text is the sequence of its lines, content.split("\n"); the empty     *)
(* text is one empty line.  A line is a record [kind, n, m]; the kinds of  *)
(* the lines of a source file, none of them indented, are                  *)
(*   "import"     import x            "sig"      function f()              *)
(*   "sigOpen"    function f() {      "open"     {                         *)
(*   "close"      }                   "stmt"     a();                      *)
(*   "stmtOpen"   if (x) {            "const"    const x = 1;              *)
(*   "blank"      (the empty line)    "comment"  // note                   *)
(*   "block"      /* note */          "blockOpen"  /* note                 *)
(*   "blockClose" note */             "doc"      /** note */               *)
(* and the lines the filters write are                                     *)
(*   "placeholder"  "    // ... implementation"                            *)
(*   "omitted"      "    // ... n lines omitted"                           *)
(*   "summary"      "// ... n more lines (total: m)"                       *)
(* The languages tried are "typescript", whose comment patterns are        *)
(* "//", "/*", "*/" and "/**", and "unknown".                              *)
(***************************************************************************)

\* Most lines of a file to filter, and of a file to truncate.
MaxSourceLines == 5
MaxTruncLines == 7
\* The line budgets tried are 1..MaxBudget.
MaxBudget == 4

SrcLine(kind) == [kind |-> kind, n |-> 0, m |-> 0]

EmptyLine == SrcLine("blank")

Newline == SrcLine("\n")

LanguagesTried == {"typescript", "unknown"}

\* content.split("\n") of a text given as lines and newlines.
RECURSIVE SplitLines(_)
SplitLines(text) ==
    IF \A i \in 1..Len(text) : text[i] # Newline
    THEN IF text = <<>> THEN <<EmptyLine>> ELSE text
    ELSE LET i == CHOOSE j \in 1..Len(text) :
                      text[j] = Newline /\ \A k \in 1..(j - 1) : text[k] # Newline
         IN  (IF i = 1 THEN <<EmptyLine>> ELSE Take(text, i - 1))
             \o SplitLines(SubSeq(text, i + 1, Len(text)))

\* result.join("\n")
RECURSIVE JoinLines(_)
JoinLines(lines) ==
    IF lines = <<>> THEN <<>>
    ELSE (IF lines[1] = EmptyLine THEN <<>> ELSE <<lines[1]>>)
         \o (IF Len(lines) = 1 THEN <<>> ELSE <<Newline>> \o JoinLines(Tail(lines)))

\* The newlines at the head of a text.
RECURSIVE NewlineRun(_)
NewlineRun(text) ==
    IF text # <<>> /\ text[1] = Newline THEN 1 + NewlineRun(Tail(text)) ELSE 0

\* Mutant: .replace(/\n{4,}/g, "\n\n\n")
RECURSIVE CollapseNewlines_FourUp(_)
CollapseNewlines_FourUp(text) ==
    IF text = <<>> THEN <<>>
    ELSE LET run == NewlineRun(text)
         IN  IF run = 0 THEN <<text[1]>> \o CollapseNewlines_FourUp(Tail(text))
             ELSE (IF run >= 4 THEN <<Newline, Newline, Newline>>
                   ELSE [k \in 1..run |-> Newline])
                  \o CollapseNewlines_FourUp(SubSeq(text, run + 1, Len(text)))

\* .replace(/\n{3,}/g, "\n\n")
RECURSIVE CollapseNewlines(_)
CollapseNewlines(text) ==
    IF text = <<>> THEN <<>>
    ELSE LET run == NewlineRun(text)
         IN  IF run = 0 THEN <<text[1]>> \o CollapseNewlines(Tail(text))
             ELSE (IF run >= 3 THEN <<Newline, Newline>>
                   ELSE [k \in 1..run |-> Newline])
                  \o CollapseNewlines(SubSeq(text, run + 1, Len(text)))

\* .trim(): the newlines and the lines of spaces at both ends go.  (The
\* first line left is never an indented one: the filters write an indented
\* line only after a line they keep.)
RECURSIVE trimText(_)
trimText(text) ==
    IF text = <<>> THEN <<>>
    ELSE IF text[1] \in {Newline, SrcLine("spaces")} THEN trimText(Tail(text))
    ELSE IF text[Len(text)] \in {Newline, SrcLine("spaces")}
    THEN trimText(Take(text, Len(text) - 1))
    ELSE text

\* trimmed.startsWith(patterns.blockStart)
startsWithBlockStart(line) == line.kind \in {"block", "blockOpen", "doc"}

\* trimmed.startsWith(patterns.docComment)
startsWithDocComment(line) == line.kind = "doc"

\* trimmed.endsWith(patterns.blockEnd)
endsWithBlockEnd(line) == line.kind \in {"block", "blockClose", "doc"}

\* line.indexOf(patterns.line) >= 0
hasLineComment(line) == line.kind \in {"comment", "placeholder", "omitted", "summary"}

\* line.slice(0, commentIndex): what stands before the "//" of a line,
\* nothing or its indentation ("spaces").
sliceBeforeComment(line) ==
    IF line.kind \in {"comment", "summary"} THEN EmptyLine ELSE SrcLine("spaces")

\* The body of the loop of filterMinimal, for a language with the comment
\* patterns of typescript.
MinimalLine(st, line) ==
    IF startsWithBlockStart(line) /\ startsWithDocComment(line)
    THEN [st EXCEPT !.result = Append(@, line)]
    ELSE LET inBlockComment == st.inBlockComment \/ startsWithBlockStart(line)
         IN  IF inBlockComment
             THEN [st EXCEPT !.inBlockComment = ~endsWithBlockEnd(line)]
             ELSE IF hasLineComment(line)
             THEN IF startsWithDocComment(line)
                  THEN [st EXCEPT !.result = Append(@, line)]
                  ELSE [st EXCEPT !.result = Append(@, sliceBeforeComment(line))]
             ELSE [st EXCEPT !.result = Append(@, line)]

RECURSIVE MinimalScan(_, _, _)
MinimalScan(lines, i, st) ==
    IF i > Len(lines) THEN st
    ELSE MinimalScan(lines, i + 1, MinimalLine(st, lines[i]))

filterMinimal(content, language) ==
    IF language = "unknown" THEN content
    ELSE LET st == MinimalScan(content, 1, [result |-> <<>>, inBlockComment |-> FALSE])
         IN  SplitLines(trimText(CollapseNewlines(JoinLines(st.result))))

\* importPattern.test(trimmed)
matchesImport(line) == line.kind = "import"

\* signaturePattern.test(trimmed)
matchesSignature(line) == line.kind \in {"sig", "sigOpen"}

\* constPattern.test(trimmed)
matchesConst(line) == line.kind = "const"

\* (trimmed.match(/\{/g) || []).length
openBraces(line) == IF line.kind \in {"open", "stmtOpen", "sigOpen"} THEN 1 ELSE 0

\* (trimmed.match(/\}/g) || []).length
closeBraces(line) == IF line.kind = "close" THEN 1 ELSE 0

\* trimmed === "{" || trimmed === "}" || trimmed.endsWith("{")
isBraceLine(line) == line.kind \in {"open", "close", "stmtOpen", "sigOpen"}

\* trimmed !== "" && trimmed !== "}"
isBodyLine(line) == line.kind \notin {"blank", "spaces", "close"}

\* Mutant: the braces of the signature line are counted.
AggressiveLine_SignatureBraces(st, line) ==
    IF matchesImport(line)
    THEN [st EXCEPT !.result = Append(@, line)]
    ELSE IF matchesSignature(line)
    THEN [result |-> Append(st.result, line), inImplementation |-> TRUE,
          braceDepth |-> openBraces(line) - closeBraces(line)]
    ELSE IF st.inImplementation
    THEN LET braceDepth == st.braceDepth + openBraces(line) - closeBraces(line)
             kept == IF braceDepth <= 1 /\ isBraceLine(line)
                     THEN Append(st.result, line) ELSE st.result
         IN  IF braceDepth <= 0
             THEN [result |-> IF isBodyLine(line)
                              THEN Append(kept, SrcLine("placeholder")) ELSE kept,
                   inImplementation |-> FALSE,
                   braceDepth |-> braceDepth]
             ELSE [result |-> kept, inImplementation |-> TRUE,
                   braceDepth |-> braceDepth]
    ELSE IF matchesConst(line)
    THEN [st EXCEPT !.result = Append(@, line)]
    ELSE st

\* Mutant: an import line is looked at only outside implementation mode.
AggressiveLine_ImportOutside(st, line) ==
    IF matchesImport(line) /\ ~st.inImplementation
    THEN [st EXCEPT !.result = Append(@, line)]
    ELSE IF matchesSignature(line)
    THEN [result |-> Append(st.result, line), inImplementation |-> TRUE,
          braceDepth |-> 0]
    ELSE IF st.inImplementation
    THEN LET braceDepth == st.braceDepth + openBraces(line) - closeBraces(line)
             kept == IF braceDepth <= 1 /\ isBraceLine(line)
                     THEN Append(st.result, line) ELSE st.result
         IN  IF braceDepth <= 0
             THEN [result |-> IF isBodyLine(line)
                              THEN Append(kept, SrcLine("placeholder")) ELSE kept,
                   inImplementation |-> FALSE,
                   braceDepth |-> braceDepth]
             ELSE [result |-> kept, inImplementation |-> TRUE,
                   braceDepth |-> braceDepth]
    ELSE IF matchesConst(line)
    THEN [st EXCEPT !.result = Append(@, line)]
    ELSE st

\* The body of the loop of filterAggressive.
AggressiveLine(st, line) ==
    IF matchesImport(line)
    THEN [st EXCEPT !.result = Append(@, line)]
    ELSE IF matchesSignature(line)
    THEN [result |-> Append(st.result, line), inImplementation |-> TRUE,
          braceDepth |-> 0]
    ELSE IF st.inImplementation
    THEN LET braceDepth == st.braceDepth + openBraces(line) - closeBraces(line)
             kept == IF braceDepth <= 1 /\ isBraceLine(line)
                     THEN Append(st.result, line) ELSE st.result
         IN  IF braceDepth <= 0
             THEN [result |-> IF isBodyLine(line)
                              THEN Append(kept, SrcLine("placeholder")) ELSE kept,
                   inImplementation |-> FALSE,
                   braceDepth |-> braceDepth]
             ELSE [result |-> kept, inImplementation |-> TRUE,
                   braceDepth |-> braceDepth]
    ELSE IF matchesConst(line)
    THEN [st EXCEPT !.result = Append(@, line)]
    ELSE st

RECURSIVE AggressiveScan(_, _, _)
AggressiveScan(lines, i, st) ==
    IF i > Len(lines) THEN st
    ELSE AggressiveScan(lines, i + 1, AggressiveLine(st, lines[i]))

filterAggressive(content, language) ==
    IF language = "unknown" THEN filterMinimal(content, language)
    ELSE LET lines == filterMinimal(content, language)
             st == AggressiveScan(lines, 1,
                       [result |-> <<>>, inImplementation |-> FALSE, braceDepth |-> 0])
         IN  SplitLines(trimText(JoinLines(st.result)))

filterSourceCode(content, language, level) ==
    CASE level = "none" -> content
      [] level = "minimal" -> filterMinimal(content, language)
      [] level = "aggressive" -> filterAggressive(content, language)
      [] OTHER -> content

\* importantPattern.test(trimmed)
isImportant(line) == line.kind \in {"import", "sig", "sigOpen", "const"}

\* One pass of the loop of smartTruncate with the non-important lines kept
\* up to and including half of the budget.
TruncateLine_HalfIncluded(st, line, total, maxLines) ==
    IF isImportant(line) \/ 2 * st.keptLines <= maxLines
    THEN [result |->
              (IF st.skippedSection
               THEN Append(st.result,
                        [kind |-> "omitted",
                         n |-> total - Len(st.result) - st.keptLines,
                         m |-> 0])
               ELSE st.result) \o <<line>>,
          keptLines |-> st.keptLines + 1,
          skippedSection |-> FALSE]
    ELSE [st EXCEPT !.skippedSection = TRUE]

\* One pass of the loop of smartTruncate that breaks one kept line late.
TruncateBreaks_Late(st, maxLines) == st.keptLines >= maxLines

\* One pass of the loop of smartTruncate over a line of a file of total
\* lines, up to the test of the break.
TruncateLine(st, line, total, maxLines) ==
    IF isImportant(line) \/ 2 * st.keptLines < maxLines
    THEN [result |->
              (IF st.skippedSection
               THEN Append(st.result,
                        [kind |-> "omitted",
                         n |-> total - Len(st.result) - st.keptLines,
                         m |-> 0])
               ELSE st.result) \o <<line>>,
          keptLines |-> st.keptLines + 1,
          skippedSection |-> FALSE]
    ELSE [st EXCEPT !.skippedSection = TRUE]

\* if (keptLines >= maxLines - 1) break
TruncateBreaks(st, maxLines) == st.keptLines >= maxLines - 1

\* The lines smartTruncate returns after its loop.
TruncateFinish(st, total) ==
    IF st.skippedSection \/ st.keptLines < total
    THEN Append(st.result,
             [kind |-> "summary", n |-> total - st.keptLines, m |-> total])
    ELSE st.result

\* The loop of smartTruncate from the i-th line on; it ends at the end of
\* the lines or at the break.
RECURSIVE TruncateScan(_, _, _, _)
TruncateScan(lines, i, st, maxLines) ==
    IF i > Len(lines) THEN st
    ELSE LET line == lines[i]
             next ==
                 IF isImportant(line) \/ 2 * st.keptLines < maxLines
                 THEN [result |->
                           (IF st.skippedSection
                            THEN Append(st.result,
                                     [kind |-> "omitted",
                                      n |-> Len(lines) - Len(st.result) - st.keptLines,
                                      m |-> 0])
                            ELSE st.result) \o <<line>>,
                       keptLines |-> st.keptLines + 1,
                       skippedSection |-> FALSE]
                 ELSE [st EXCEPT !.skippedSection = TRUE]
         IN  IF next.keptLines >= maxLines - 1 THEN next
             ELSE TruncateScan(lines, i + 1, next, maxLines)

smartTruncate(content, maxLines, language) ==
    IF Len(content) <= maxLines THEN content
    ELSE LET st == TruncateScan(content, 1,
                       [result |-> <<>>, keptLines |-> 0, skippedSection |-> FALSE],
                       maxLines)
         IN  IF st.skippedSection \/ st.keptLines < Len(content)
             THEN Append(st.result,
                      [kind |-> "summary", n |-> Len(content) - st.keptLines,
                       m |-> Len(content)])
             ELSE st.result

\* The lines of the files filtered, and of the files truncated.
FilterLinesTried ==
    {SrcLine(k) : k \in {"import", "sig", "sigOpen", "open", "close", "stmt",
                         "const", "blank"}}

TruncLinesTried == {SrcLine(k) : k \in {"import", "stmt", "blank"}}

FilterIdle ==
    /\ fPc = "idle"
    /\ fContent = <<>>
    /\ fLanguage = "unknown"
    /\ fResult = <<>>

FilterInit ==
    /\ fPc = "read"
    /\ fContent = <<>>
    /\ fLanguage = "unknown"
    /\ fResult = <<>>

\* The file to filter gets one more line.
FilterLine ==
    /\ fPc = "read"
    /\ Len(fContent) < MaxSourceLines
    /\ \E line \in FilterLinesTried : fContent' = Append(fContent, line)
    /\ UNCHANGED <<fPc, fLanguage, fResult, notFilter>>

\* One call of filterAggressive on the file.
FilterAggressive ==
    /\ fPc = "read"
    /\ fContent # <<>>
    /\ \E language \in LanguagesTried :
          /\ fLanguage' = language
          /\ fResult' = filterAggressive(fContent, language)
    /\ fPc' = "done"
    /\ UNCHANGED <<fContent, notFilter>>

TruncIdle ==
    /\ kPc = "idle"
    /\ kContent = <<>>
    /\ kMaxLines = 0
    /\ kResult = <<>>

TruncInit ==
    /\ kPc = "read"
    /\ kContent = <<>>
    /\ kMaxLines = 0
    /\ kResult = <<>>

\* The file to truncate gets one more line.
TruncLine ==
    /\ kPc = "read"
    /\ Len(kContent) < MaxTruncLines
    /\ \E line \in TruncLinesTried : kContent' = Append(kContent, line)
    /\ UNCHANGED <<kPc, kMaxLines, kResult, notTrunc>>

\* One call of smartTruncate on the file.
TruncCall ==
    /\ kPc = "read"
    /\ kContent # <<>>
    /\ \E maxLines \in 1..MaxBudget :
          /\ kMaxLines' = maxLines
          /\ kResult' = smartTruncate(kContent, maxLines, "typescript")
    /\ kPc' = "done"
    /\ UNCHANGED <<kContent, notTrunc>>

(***************************************************************************)
(* Command classifier: isTestCommand on commands put together from pieces  *)
(* (src/techniques/test-output.ts:37-48).                                  *)
(***************************************************************************)

\* Most pieces of a command.
MaxCmdPieces == 3

\* The pieces: runner names, word parts that make a longer word of a name
\* ("la" + "test", "test" + "s"), the bounding characters, and a character
\* that is none ("/").
CmdPiecesTried == {
    <<"t", "e", "s", "t">>, <<"T", "e", "s", "t">>, <<"j", "e", "s", "t">>,
    <<"g", "o">>, <<"l", "a">>, <<"s">>, <<"/">>,
    <<" ">>, <<"\t">>, <<"|">>, <<";">>, <<"&">>
}

CmdIdle ==
    /\ cPc = "idle"
    /\ cCommand = Null
    /\ cPieces = 0
    /\ cResult = FALSE

\* command is undefined or null, or a string that starts empty.
CmdInit ==
    /\ cPc = "read"
    /\ cCommand \in {Null, Str(<<>>)}
    /\ cPieces = 0
    /\ cResult = FALSE

\* The command gets one more piece.
CmdPiece ==
    /\ cPc = "read"
    /\ ~cCommand.null
    /\ cPieces < MaxCmdPieces
    /\ \E piece \in CmdPiecesTried : cCommand' = Str(cCommand.text \o piece)
    /\ cPieces' = cPieces + 1
    /\ UNCHANGED <<cPc, cResult, notCmd>>

\* One call of isTestCommand.
CmdIsTest ==
    /\ cPc = "read"
    /\ cResult' = isTestCommand(cCommand)
    /\ cPc' = "done"
    /\ UNCHANGED <<cCommand, cPieces, notCmd>>

(***************************************************************************)
(* Build aggregator on long outputs: the lines are error-start lines,      *)
(* continuation lines and a few warning lines, enough of them for more     *)
(* blocks and longer blocks than the report shows.                         *)
(***************************************************************************)

\* Most lines, and most warning lines, of a long output.
MaxReportLines == 12
MaxReportWarnings == 1

\* The loop body on the next line of a long output.
BuildReportLine ==
    /\ bPc = "scan"
    /\ Len(bLines) < MaxReportLines
    /\ \E line \in {"error", "cont", "warning"} :
        /\ line = "warning" => Count(bLines, {"warning"}) < MaxReportWarnings
        /\ bLines' = Append(bLines, line)
        /\ build' = BuildScanLine(build, line, Len(bLines) + 1)
    /\ UNCHANGED <<bPc, bCommand, bResult, notBuild>>

(***************************************************************************)
(* Configuration: src/unnamed/part_004.  Configuration objects live in a   *)
(* heap (a sequence of objects, a reference is an index), because the      *)
(* module state of src/index.ts holds a reference to one of them and the   *)
(* commands write through that reference.                                  *)
(***************************************************************************)
MaxCommands == 2
DefaultShowUpdateEvery == 10
DefaultMaxChars == 10000
DefaultMaxLines == 200

\* An optional field of a parsed JSON object or of a parameter record.
None == [has |-> FALSE]
Some(x) == [has |-> TRUE, v |-> x]

\* The objects of DEFAULT_CONFIG, allocated when the module is loaded.
DEFAULT_CONFIG == 1
DefaultTechniquesRef == 2
DefaultTruncation == [enabled |-> TRUE, maxChars |-> DefaultMaxChars]
DefaultSourceCodeFiltering == [enabled |-> TRUE, level |-> "minimal"]
DefaultSmartTruncation == [enabled |-> TRUE, maxLines |-> DefaultMaxLines]
DefaultHeap ==
    << [enabled |-> TRUE, logSavings |-> TRUE,
        showUpdateEvery |-> DefaultShowUpdateEvery,
        techniques |-> DefaultTechniquesRef],
       [ansiStripping |-> TRUE, truncation |-> 3, sourceCodeFiltering |-> 4,
        smartTruncation |-> 5, testOutputAggregation |-> TRUE,
        buildOutputFiltering |-> TRUE, gitCompaction |-> TRUE,
        searchResultGrouping |-> TRUE, linterAggregation |-> TRUE],
       DefaultTruncation, DefaultSourceCodeFiltering, DefaultSmartTruncation >>

booleanTechniques ==
    {"ansiStripping", "testOutputAggregation", "buildOutputFiltering",
     "gitCompaction", "searchResultGrouping", "linterAggregation"}
nestedTechniques == {"truncation", "sourceCodeFiltering", "smartTruncation"}

\* config.techniques of the configuration c, with the nested records read
\* through their references.
Techniques(h, c) ==
    LET t == h[h[c].techniques]
    IN  [t EXCEPT !.truncation = h[t.truncation],
                  !.sourceCodeFiltering = h[t.sourceCodeFiltering],
                  !.smartTruncation = h[t.smartTruncation]]

\* The objects a configuration is made of.
ObjectsOf(h, c) ==
    LET t == h[h[c].techniques]
    IN  {c, h[c].techniques, t.truncation, t.sourceCodeFiltering, t.smartTruncation}

\* A parsed configuration file: every field may be missing.
NoTruncation == [enabled |-> None, maxChars |-> None]
NoSourceCodeFiltering == [enabled |-> None, level |-> None]
NoSmartTruncation == [enabled |-> None, maxLines |-> None]
NoTechniques ==
    [ansiStripping |-> None, truncation |-> None, sourceCodeFiltering |-> None,
     smartTruncation |-> None, testOutputAggregation |-> None,
     buildOutputFiltering |-> None, gitCompaction |-> None,
     searchResultGrouping |-> None, linterAggregation |-> None]
EmptyOverride ==
    [enabled |-> None, logSavings |-> None, showUpdateEvery |-> None,
     techniques |-> None]

\* '"truncation": { "enabled": false }' of the README's configuration.
ReadmeTruncation == [NoTruncation EXCEPT !.enabled = Some(FALSE)]
OverridesTried ==
    { EmptyOverride,
      [EmptyOverride EXCEPT !.enabled = Some(FALSE)],
      [EmptyOverride EXCEPT !.showUpdateEvery = Some(0 - 1)],
      [EmptyOverride EXCEPT !.techniques = Some(NoTechniques)],
      [EmptyOverride EXCEPT !.techniques =
          Some([NoTechniques EXCEPT !.truncation = Some(ReadmeTruncation)])],
      [EmptyOverride EXCEPT !.techniques =
          Some([NoTechniques EXCEPT !.gitCompaction = Some(FALSE),
                                    !.ansiStripping = Some(TRUE)])],
      [EmptyOverride EXCEPT !.logSavings = Some(FALSE), !.techniques =
          Some([NoTechniques EXCEPT
                  !.sourceCodeFiltering =
                      Some([enabled |-> None, level |-> Some("aggressive")]),
                  !.smartTruncation =
                      Some([enabled |-> Some(FALSE), maxLines |-> Some(40)]),
                  !.truncation = Some(NoTruncation)])] }

\* One field of { ...base, ...override }.
Spread_BaseWins(b, o) == b
Spread(b, o) == IF o.has THEN o.v ELSE b

\* override.x || {} for a nested record x.
OrEmpty(o, empty) == IF o.has THEN o.v ELSE empty

\* mergeConfig(base, override): the heap with the new objects, and the
\* reference it returns.  base is a reference, override a parsed value.
mergeConfig(h, base, override) ==
    LET b  == h[base]
        bt == h[b.techniques]
        ot == OrEmpty(override.techniques, NoTechniques)
        otr == OrEmpty(ot.truncation, NoTruncation)
        osc == OrEmpty(ot.sourceCodeFiltering, NoSourceCodeFiltering)
        osm == OrEmpty(ot.smartTruncation, NoSmartTruncation)
        raw == override.showUpdateEvery
        showUpdateEvery ==
            IF raw.has THEN (IF raw.v > 0 THEN raw.v ELSE 0) ELSE b.showUpdateEvery
        n  == Len(h)
        truncation ==
            [enabled |-> Spread(h[bt.truncation].enabled, otr.enabled),
             maxChars |-> Spread(h[bt.truncation].maxChars, otr.maxChars)]
        sourceCodeFiltering ==
            [enabled |-> Spread(h[bt.sourceCodeFiltering].enabled, osc.enabled),
             level |-> Spread(h[bt.sourceCodeFiltering].level, osc.level)]
        smartTruncation ==
            [enabled |-> Spread(h[bt.smartTruncation].enabled, osm.enabled),
             maxLines |-> Spread(h[bt.smartTruncation].maxLines, osm.maxLines)]
        techniques ==
            [ansiStripping |-> Spread(bt.ansiStripping, ot.ansiStripping),
             truncation |-> n + 1,
             sourceCodeFiltering |-> n + 2,
             smartTruncation |-> n + 3,
             testOutputAggregation |->
                 Spread(bt.testOutputAggregation, ot.testOutputAggregation),
             buildOutputFiltering |->
                 Spread(bt.buildOutputFiltering, ot.buildOutputFiltering),
             gitCompaction |-> Spread(bt.gitCompaction, ot.gitCompaction),
             searchResultGrouping |->
                 Spread(bt.searchResultGrouping, ot.searchResultGrouping),
             linterAggregation |->
                 Spread(bt.linterAggregation, ot.linterAggregation)]
        root ==
            [enabled |-> Spread(b.enabled, override.enabled),
             logSavings |-> Spread(b.logSavings, override.logSavings),
             showUpdateEvery |-> showUpdateEvery,
             techniques |-> n + 4]
    IN  [heap |-> h \o <<truncation, sourceCodeFiltering, smartTruncation,
                         techniques, root>>,
         ref |-> n + 5]

\* What reading and parsing one of the two files of loadConfig gives: no
\* usable file (the catch block), or the parsed object.
NoFile == None
FilesTried == {NoFile} \cup {Some(o) : o \in OverridesTried}

\* The load that session_start awaits: which path it reads next, and what it
\* resolved to.
LoadIdle == [pc |-> "idle", path |-> 1, parsed |-> None, result |-> 0]

\* The tool result to dispatch: none yet.
NoEvent == [tool |-> "none", input |-> <<>>, text |-> <<>>]

\* The module state when the extension has been loaded, with the tool result
\* e to come.
EngineStart(e) ==
    /\ heap = DefaultHeap
    /\ config = DEFAULT_CONFIG
    /\ enabled = TRUE
    /\ loaded = FALSE
    /\ load = LoadIdle
    /\ commands = 0
    /\ processedCount = 0
    /\ metrics = <<>>
    /\ last = [tool |-> "none"]
    /\ event = e

EngineIdle == EngineStart(NoEvent)

\* session_start: the first one starts the load, the others return at once.
SessionStart ==
    /\ ~loaded
    /\ loaded' = TRUE
    /\ load' = [load EXCEPT !.pc = "reading"]
    /\ UNCHANGED <<heap, config, enabled, commands, processedCount, metrics,
                   last, event>>
    /\ UNCHANGED notEngine

\* One pass of loadConfig's loop, up to the await of session_start when the
\* promise resolves: a parsed file is merged over DEFAULT_CONFIG, and after
\* the second unusable file DEFAULT_CONFIG itself is returned.
LoadRead ==
    /\ load.pc = "reading"
    /\ \E file \in FilesTried :
        IF file.has THEN
            LET m == mergeConfig(heap, DEFAULT_CONFIG, file.v)
            IN  /\ heap' = m.heap
                /\ config' = m.ref
                /\ enabled' = m.heap[m.ref].enabled
                /\ load' = [pc |-> "done", path |-> load.path,
                            parsed |-> file, result |-> m.ref]
        ELSE IF load.path = 1 THEN
            /\ load' = [load EXCEPT !.path = 2]
            /\ UNCHANGED <<heap, config, enabled>>
        ELSE
            /\ config' = DEFAULT_CONFIG
            /\ enabled' = heap[DEFAULT_CONFIG].enabled
            /\ load' = [pc |-> "done", path |-> 2, parsed |-> None,
                        result |-> DEFAULT_CONFIG]
            /\ UNCHANGED heap
    /\ UNCHANGED <<loaded, commands, processedCount, metrics,
                   last, event>>
    /\ UNCHANGED notEngine

\* rtk-on and rtk-off.
RtkOn ==
    /\ commands < MaxCommands
    /\ commands' = commands + 1
    /\ enabled' = TRUE
    /\ UNCHANGED <<heap, config, loaded, load, processedCount, metrics,
                   last, event>>
    /\ UNCHANGED notEngine

RtkOff ==
    /\ commands < MaxCommands
    /\ commands' = commands + 1
    /\ enabled' = FALSE
    /\ UNCHANGED <<heap, config, loaded, load, processedCount, metrics,
                   last, event>>
    /\ UNCHANGED notEngine

\* rtk-toggle-<technique>: writes through the reference in config.
RtkToggle ==
    /\ commands < MaxCommands
    /\ commands' = commands + 1
    /\ \E technique \in booleanTechniques \cup nestedTechniques :
        LET t == heap[config].techniques
        IN  IF technique \in booleanTechniques
            THEN heap' = [heap EXCEPT ![t][technique] = ~@]
            ELSE heap' = [heap EXCEPT ![heap[t][technique]].enabled = ~@]
    /\ UNCHANGED <<config, enabled, loaded, load, processedCount, metrics,
                   last, event>>
    /\ UNCHANGED notEngine

\* The parameters of rtk_configure: every one is optional.
NoParams ==
    [ansiStripping |-> None, truncationEnabled |-> None,
     truncationMaxChars |-> None, sourceCodeFilteringEnabled |-> None,
     sourceCodeFilteringLevel |-> None, smartTruncationEnabled |-> None,
     smartTruncationMaxLines |-> None, testOutputAggregation |-> None,
     buildOutputFiltering |-> None, gitCompaction |-> None,
     searchResultGrouping |-> None, linterAggregation |-> None]
MaxCharsTried == {2, 8}
MaxLinesTried == {2}
ParamsTried ==
    {[NoParams EXCEPT !.truncationMaxChars = Some(n)] : n \in MaxCharsTried}
    \cup {[NoParams EXCEPT !.smartTruncationMaxLines = Some(n)] : n \in MaxLinesTried}
    \cup { NoParams,
           [NoParams EXCEPT !.sourceCodeFilteringLevel = Some("aggressive")],
           [NoParams EXCEPT !.sourceCodeFilteringEnabled = Some(FALSE),
                            !.smartTruncationEnabled = Some(FALSE)],
           [NoParams EXCEPT !.truncationEnabled = Some(FALSE),
                            !.ansiStripping = Some(FALSE)],
           [NoParams EXCEPT !.testOutputAggregation = Some(FALSE),
                            !.buildOutputFiltering = Some(FALSE),
                            !.gitCompaction = Some(FALSE),
                            !.searchResultGrouping = Some(FALSE),
                            !.linterAggregation = Some(FALSE)] }

\* execute of rtk_configure: the assignments of src/index.ts:332-345.
configure(h, c, params) ==
    LET t  == h[c].techniques
        tr == h[t].truncation
        sc == h[t].sourceCodeFiltering
        sm == h[t].smartTruncation
    IN  [h EXCEPT
            ![t].ansiStripping = Spread(@, params.ansiStripping),
            ![tr].enabled = Spread(@, params.truncationEnabled),
            ![tr].maxChars = Spread(@, params.truncationMaxChars),
            ![sc].enabled = Spread(@, params.sourceCodeFilteringEnabled),
            ![sc].level = Spread(@, params.sourceCodeFilteringLevel),
            ![sm].enabled = Spread(@, params.smartTruncationEnabled),
            ![sm].maxLines = Spread(@, params.smartTruncationMaxLines),
            ![t].testOutputAggregation = Spread(@, params.testOutputAggregation),
            ![t].buildOutputFiltering = Spread(@, params.buildOutputFiltering),
            ![t].gitCompaction = Spread(@, params.gitCompaction),
            ![t].searchResultGrouping = Spread(@, params.searchResultGrouping),
            ![t].linterAggregation = Spread(@, params.linterAggregation)]

\* rtk_configure called with one of the parameter records tried.
RtkConfigureWith(tried) ==
    /\ commands < MaxCommands
    /\ commands' = commands + 1
    /\ \E params \in tried : heap' = configure(heap, config, params)
    /\ UNCHANGED <<config, enabled, loaded, load, processedCount, metrics,
                   last, event>>
    /\ UNCHANGED notEngine

RtkConfigure == RtkConfigureWith(ParamsTried)

(***************************************************************************)
(* Engine, file reads: detectLanguage (src/unnamed/part_002:12-54) and the *)
(* read path of the tool_result handler (src/index.ts:66-67, 141-177).     *)
(***************************************************************************)
MaxReadLines == 3

LANGUAGE_EXTENSIONS ==
    {<<<<".", "t", "s">>, "typescript">>,
     <<<<".", "t", "s", "x">>, "typescript">>,
     <<<<".", "j", "s">>, "javascript">>,
     <<<<".", "j", "s", "x">>, "javascript">>,
     <<<<".", "m", "j", "s">>, "javascript">>,
     <<<<".", "p", "y">>, "python">>,
     <<<<".", "p", "y", "w">>, "python">>,
     <<<<".", "r", "s">>, "rust">>,
     <<<<".", "g", "o">>, "go">>,
     <<<<".", "j", "a", "v", "a">>, "java">>,
     <<<<".", "c">>, "c">>,
     <<<<".", "h">>, "c">>,
     <<<<".", "c", "p", "p">>, "cpp">>,
     <<<<".", "h", "p", "p">>, "cpp">>,
     <<<<".", "c", "c">>, "cpp">>}

\* String.prototype.lastIndexOf for one character, counting from 1; 0 when
\* it does not occur.
lastIndexOf(s, c) ==
    IF \E i \in 1..Len(s) : s[i] = c
    THEN CHOOSE i \in 1..Len(s) : s[i] = c /\ \A j \in (i + 1)..Len(s) : s[j] # c
    ELSE 0

\* Mutant: the table is searched for an entry the extension starts with.
detectLanguage_Prefix(filePath) ==
    LET lastDot == lastIndexOf(filePath, ".")
    IN  IF lastDot = 0 THEN "unknown"
        ELSE LET ext == toLowerCase(SubSeq(filePath, lastDot, Len(filePath)))
             IN  IF \E e \in LANGUAGE_EXTENSIONS : startsWith(ext, e[1])
                 THEN (CHOOSE e \in LANGUAGE_EXTENSIONS : startsWith(ext, e[1]))[2]
                 ELSE "unknown"

detectLanguage(filePath) ==
    LET lastDot == lastIndexOf(filePath, ".")
    IN  IF lastDot = 0 THEN "unknown"
        ELSE LET ext == toLowerCase(SubSeq(filePath, lastDot, Len(filePath)))
             IN  IF \E e \in LANGUAGE_EXTENSIONS : e[1] = ext
                 THEN (CHOOSE e \in LANGUAGE_EXTENSIONS : e[1] = ext)[2]
                 ELSE "unknown"

\* The paths of the files read.
PathsTried ==
    {<<>>,
     <<"a">>,
     <<"a", ".", "t", "s">>,
     <<"a", ".", "T", "S">>,
     <<"a", ".", "t", "s", "x">>,
     <<"a", ".", "j", "s">>,
     <<"a", ".", "t", "x", "t">>,
     <<"a", ".", "t", "s", ".", "b", "a", "k">>,
     <<"a", ".", "j", "s", "o", "n">>,
     <<"d", ".", "t", "s", "/", "a">>,
     <<"a", ".">>,
     <<"a", ".", "t">>}

\* The lines of the files read.
ReadLinesTried == {SrcLine(k) : k \in {"import", "stmt", "comment"}}

\* trackSavings: the record pushed.  It keeps the two texts, of which the
\* code keeps the lengths.
trackSavings(original, filtered, tool, technique) ==
    [tool |-> tool, technique |-> technique,
     original |-> original, filtered |-> filtered]

\* A read result arrives: its path is chosen, its text is still empty.
ReadEvent(path) == [tool |-> "read", input |-> path, text |-> <<>>]

ReadInit == \E path \in PathsTried : EngineStart(ReadEvent(path))

\* The file read gets one more line.
ReadLine ==
    /\ event.tool = "read"
    /\ Len(event.text) < MaxReadLines
    /\ \E line \in ReadLinesTried : event' = [event EXCEPT !.text = Append(@, line)]
    /\ UNCHANGED <<heap, config, enabled, loaded, load, commands, processedCount,
                   metrics, last>>
    /\ UNCHANGED notEngine

\* What the handler did with the read result: the language it detected,
\* whether it called smartTruncate, and the text it returned (Null when it
\* returned nothing).
ReadOutcome(language, smart, returned) ==
    [tool |-> "read", path |-> event.input, text |-> event.text,
     language |-> language, smart |-> smart, returned |-> returned]

\* tool_result for a read result.
ReadResult ==
    /\ event.tool = "read"
    /\ event.text # <<>>
    /\ event' = NoEvent
    /\ LET originalText == event.text
           language == detectLanguage(event.input)
           t == Techniques(heap, config)
       IN  IF enabled /\ t.sourceCodeFiltering.enabled /\ language # "unknown"
           THEN LET filtered == filterSourceCode(originalText, language,
                                                 t.sourceCodeFiltering.level)
                    smart == /\ t.smartTruncation.enabled
                             /\ Len(filtered) > t.smartTruncation.maxLines
                    filteredText ==
                        IF smart
                        THEN smartTruncate(filtered, t.smartTruncation.maxLines, language)
                        ELSE filtered
                    technique == IF smart THEN "source+smart" ELSE "source"
                IN  IF filteredText # originalText
                    THEN /\ metrics' = Append(metrics,
                                trackSavings(originalText, filteredText, "read", technique))
                         /\ processedCount' = processedCount + 1
                         /\ last' = ReadOutcome(language, smart, Str(filteredText))
                    ELSE /\ last' = ReadOutcome(language, smart, Null)
                         /\ UNCHANGED <<metrics, processedCount>>
           ELSE /\ last' = ReadOutcome(language, FALSE, Null)
                /\ UNCHANGED <<metrics, processedCount>>
    /\ UNCHANGED <<heap, config, enabled, loaded, load, commands>>
    /\ UNCHANGED notEngine

(***************************************************************************)
(* Engine, command outputs: the techniques on texts.  A text is the        *)
(* sequence of its characters; an aggregator splits it into lines, reads   *)
(* each line with its patterns, and joins the lines of its report.         *)
(***************************************************************************)

\* /^\s*Word\s+/
BuildWord(word) == <<Bol, Many(SpaceChar, 0), Lit(word), Many(SpaceChar, 1)>>

\* /^\s*(Compiling|Checking|Building)\s+/
UNIT_START_PATTERN ==
    <<Bol, Many(SpaceChar, 0),
      Alt(<< <<Lit(<<"C", "o", "m", "p", "i", "l", "i", "n", "g">>)>>, <<Lit(<<"C", "h", "e", "c", "k", "i", "n", "g">>)>>, <<Lit(<<"B", "u", "i", "l", "d", "i", "n", "g">>)>> >>),
      Many(SpaceChar, 1)>>

SKIP_PATTERNS ==
    <<BuildWord(<<"C", "o", "m", "p", "i", "l", "i", "n", "g">>), BuildWord(<<"C", "h", "e", "c", "k", "i", "n", "g">>), BuildWord(<<"D", "o", "w", "n", "l", "o", "a", "d", "i", "n", "g">>),
      BuildWord(<<"D", "o", "w", "n", "l", "o", "a", "d", "e", "d">>), BuildWord(<<"F", "e", "t", "c", "h", "i", "n", "g">>), BuildWord(<<"F", "e", "t", "c", "h", "e", "d">>),
      BuildWord(<<"U", "p", "d", "a", "t", "i", "n", "g">>), BuildWord(<<"U", "p", "d", "a", "t", "e", "d">>), BuildWord(<<"B", "u", "i", "l", "d", "i", "n", "g">>),
      BuildWord(<<"G", "e", "n", "e", "r", "a", "t", "e", "d">>), BuildWord(<<"C", "r", "e", "a", "t", "i", "n", "g">>), BuildWord(<<"R", "u", "n", "n", "i", "n", "g">>)>>

ERROR_START_PATTERNS ==
    << <<Bol, Lit(<<"e", "r", "r", "o", "r", "[">>)>>, <<Bol, Lit(<<"e", "r", "r", "o", "r", ":">>)>>, <<Bol, Lit(<<"[", "E", "R", "R", "O", "R", "]">>)>>,
       <<Bol, Lit(<<"F", "A", "I", "L">>)>> >>

WARNING_PATTERNS ==
    << <<Bol, Lit(<<"w", "a", "r", "n", "i", "n", "g", ":">>)>>, <<Bol, Lit(<<"[", "W", "A", "R", "N", "I", "N", "G", "]">>)>>, <<Bol, Lit(<<"w", "a", "r", "n", ":">>)>> >>

\* /^\s/ and /^-->/
CONTINUATION_PATTERNS == << <<Bol, OneOf(SpaceChar)>>, <<Bol, Lit(<<"-", "-", ">">>)>> >>

\* The kind of a line of build output, by the tests of the scanner in their
\* order.
BuildKindOf(line) ==
    IF Test(UNIT_START_PATTERN, line) THEN "unit"
    ELSE IF TestSome(SKIP_PATTERNS, line) THEN "noise"
    ELSE IF TestSome(ERROR_START_PATTERNS, line) THEN "error"
    ELSE IF TestSome(WARNING_PATTERNS, line) THEN "warning"
    ELSE IF trim(line) = <<>> THEN "blank"
    ELSE IF TestSome(CONTINUATION_PATTERNS, line) THEN "cont"
    ELSE "other"

\* The text of one entry of a build report.
BuildEntryText(entry, lines) ==
    CASE entry[1] = "[OK] Build successful" ->
            <<"[", "O", "K", "]", " ", "B", "u", "i", "l", "d", " ", "s", "u", "c", "c", "e", "s", "s", "f", "u", "l", " ", "(">> \o Digits(entry[2]) \o <<" ", "u", "n", "i", "t", "s", " ", "c", "o", "m", "p", "i", "l", "e", "d", ")">>
      [] entry[1] = "[ERROR]" -> <<"[", "E", "R", "R", "O", "R", "]", " ">> \o Digits(entry[2]) \o <<" ", "e", "r", "r", "o", "r", "(", "s", ")", ":">>
      [] entry[1] = "line" -> lines[entry[2]]
      [] entry[1] = "  ..." -> <<" ", " ", ".", ".", ".">>
      [] entry[1] = "... and more errors" ->
            <<".", ".", ".", " ", "a", "n", "d", " ">> \o Digits(entry[2]) \o <<" ", "m", "o", "r", "e", " ", "e", "r", "r", "o", "r", "s">>
      [] entry[1] = "[WARN]" -> <<"\n", "[", "W", "A", "R", "N", "]", " ">> \o Digits(entry[2]) \o <<" ", "w", "a", "r", "n", "i", "n", "g", "(", "s", ")">>

\* filterBuildOutput on a text.
filterBuildOutputText(output, command) ==
    LET lines == Split(output, "\n")
        report == filterBuildOutput([i \in 1..Len(lines) |-> BuildKindOf(lines[i])],
                                    command)
    IN  IF report.null THEN Null
        ELSE Str(Join([e \in 1..Len(report.text) |->
                          BuildEntryText(report.text[e], lines)], <<"\n">>))

\* (?:,\s*(\d+)\s*word)? with the group k
CountPart(k, word) ==
    Opt(<<Lit(<<",">>), Many(SpaceChar, 0), Grp(k, <<Many(Digit, 1)>>),
          Many(SpaceChar, 0), LitI(word)>>)

\* TEST_RESULT_PATTERNS: the last three are case-insensitive.
TEST_RESULT_PATTERNS ==
    << <<Lit(<<"t", "e", "s", "t", " ", "r", "e", "s", "u", "l", "t", ":">>), Many(SpaceChar, 0), Grp(1, <<Many(WordChar, 1)>>),
         Lit(<<".">>), Many(SpaceChar, 0), Grp(2, <<Many(Digit, 1)>>),
         Many(SpaceChar, 0), Lit(<<"p", "a", "s", "s", "e", "d", ";">>), Many(SpaceChar, 0),
         Grp(3, <<Many(Digit, 1)>>), Many(SpaceChar, 0), Lit(<<"f", "a", "i", "l", "e", "d", ";">>)>>,
       <<Grp(1, <<Many(Digit, 1)>>), Many(SpaceChar, 0), LitI(<<"p", "a", "s", "s", "e", "d">>),
         CountPart(2, <<"f", "a", "i", "l", "e", "d">>), CountPart(3, <<"s", "k", "i", "p", "p", "e", "d">>)>>,
       <<Grp(1, <<Many(Digit, 1)>>), Many(SpaceChar, 0), LitI(<<"p", "a", "s", "s">>),
         CountPart(2, <<"f", "a", "i", "l">>), CountPart(3, <<"s", "k", "i", "p">>)>>,
       <<LitI(<<"t", "e", "s", "t">>), Opt(<<LitI(<<"s">>)>>), Lit(<<":">>), Many(SpaceChar, 0),
         Grp(1, <<Many(Digit, 1)>>), Many(SpaceChar, 0), LitI(<<"p", "a", "s", "s", "e", "d">>),
         CountPart(2, <<"f", "a", "i", "l", "e", "d">>), CountPart(3, <<"s", "k", "i", "p", "p", "e", "d">>)>> >>

\* parseInt(match[k], 10) || 0: the number the group starts with, 0 when it
\* starts with no digit or took no part in the match.
GroupInt(m, s, k) ==
    IF ~HasGroup(m, k) THEN 0
    ELSE LET g == Group(m, s, k)
         IN  parseInt(Take(g, RunLength(g, 1, Many(Digit, 0))))

\* extractTestStats on a text: the summary of the first pattern, from p on,
\* that matches.
RECURSIVE extractTestStatsText(_, _)
extractTestStatsText(output, p) ==
    IF p > Len(TEST_RESULT_PATTERNS) THEN [passed |-> 0, failed |-> 0, skipped |-> 0]
    ELSE LET m == Match(TEST_RESULT_PATTERNS[p], output)
         IN  IF m.ok
             THEN [passed  |-> GroupInt(m, output, 1),
                   failed  |-> GroupInt(m, output, 2),
                   skipped |-> GroupInt(m, output, 3)]
             ELSE extractTestStatsText(output, p + 1)

\* Mutant: the lines are counted by hand whenever no pass was extracted.
TestStatsText_NoPass(output, lines) ==
    LET stats == extractTestStatsText(output, 1)
    IN  IF stats.passed = 0
        THEN [stats EXCEPT
                !.passed = Cardinality({i \in 1..Len(lines) : hasPassMarker(lines[i])}),
                !.failed = Cardinality({i \in 1..Len(lines) : hasFailMarker(lines[i])})]
        ELSE stats

\* Extract stats from output, with the fallback of counting by hand.
TestStatsText(output, lines) ==
    LET stats == extractTestStatsText(output, 1)
    IN  IF stats.passed = 0 /\ stats.failed = 0
        THEN [stats EXCEPT
                !.passed = Cardinality({i \in 1..Len(lines) : hasPassMarker(lines[i])}),
                !.failed = Cardinality({i \in 1..Len(lines) : hasFailMarker(lines[i])})]
        ELSE stats

\* line.slice(0, n) + (line.length > n ? "..." : "")
Cut(line, n) == IF Len(line) > n THEN Take(line, n) \o <<".", ".", ".">> ELSE line

\* firstLine.slice(0, 70) and line.slice(0, 65) of the report.
FirstLineShown == 70
RestLineShown == 65

\* The text of one entry of a test report.
TestEntryText(entry, lines) ==
    CASE entry[1] = "Test Results:" -> <<"T", "e", "s", "t", " ", "R", "e", "s", "u", "l", "t", "s", ":">>
      [] entry[1] = "   PASS:" -> <<" ", " ", " ", "P", "A", "S", "S", ":", " ">> \o Digits(entry[2]) \o <<" ", "p", "a", "s", "s", "e", "d">>
      [] entry[1] = "   FAIL:" -> <<" ", " ", " ", "F", "A", "I", "L", ":", " ">> \o Digits(entry[2]) \o <<" ", "f", "a", "i", "l", "e", "d">>
      [] entry[1] = "   SKIP:" -> <<" ", " ", " ", "S", "K", "I", "P", ":", " ">> \o Digits(entry[2]) \o <<" ", "s", "k", "i", "p", "p", "e", "d">>
      [] entry[1] = "   Failures:" -> <<"\n", " ", " ", " ", "F", "a", "i", "l", "u", "r", "e", "s", ":">>
      [] entry[1] = "   - " -> <<" ", " ", " ", "-", " ">> \o Cut(lines[entry[2]].chars, FirstLineShown)
      [] entry[1] = "     " -> <<" ", " ", " ", " ", " ">> \o Cut(lines[entry[2]].chars, RestLineShown)
      [] entry[1] = "     ... (more lines)" ->
            <<" ", " ", " ", " ", " ", ".", ".", ".", " ", "(">> \o Digits(entry[2]) \o <<" ", "m", "o", "r", "e", " ", "l", "i", "n", "e", "s", ")">>
      [] entry[1] = "   ... and more failures" ->
            <<" ", " ", " ", ".", ".", ".", " ", "a", "n", "d", " ">> \o Digits(entry[2]) \o <<" ", "m", "o", "r", "e", " ", "f", "a", "i", "l", "u", "r", "e", "s">>

\* aggregateTestOutput on a text.
aggregateTestOutputText(output, command) ==
    IF command.null \/ ~isTestCommand(command) THEN Null
    ELSE LET split == Split(output, "\n")
             lines == [i \in 1..Len(split) |-> TextLine(split[i])]
             summary == TestStatsText(output, lines)
             failures == IF summary.failed > 0
                         THEN TestFlushFinal(TestScan(TestScanStart, lines, 1)).failures
                         ELSE <<>>
             report == TestFormat(lines, summary, failures)
         IN  Str(Join([e \in 1..Len(report.text) |->
                          TestEntryText(report.text[e], lines)], <<"\n">>))

\* Git compactor on texts (src/techniques/git.ts).
GIT_COMMANDS == {<<"g", "i", "t", " ", "d", "i", "f", "f">>, <<"g", "i", "t", " ", "s", "t", "a", "t", "u", "s">>, <<"g", "i", "t", " ", "l", "o", "g">>, <<"g", "i", "t", " ", "s", "h", "o", "w">>, <<"g", "i", "t", " ", "s", "t", "a", "s", "h">>}

isGitCommand(command) ==
    IF command.null \/ Len(command.text) = 0 THEN FALSE
    ELSE LET cmdLower == toLowerCase(command.text)
         IN  \E gc \in GIT_COMMANDS : startsWith(cmdLower, gc)

\* compactDiff(output, maxLines = 50) and its maxHunkLines.
DefaultDiffLines == 50
maxHunkLines == 10

\* /diff --git a\/(.+) b\/(.+)/ and /@@ .+ @@/
DIFF_HEADER ==
    <<Lit(<<"d", "i", "f", "f", " ", "-", "-", "g", "i", "t", " ", "a", "/">>), Grp(1, <<ManyNot(LineEnd, 1)>>), Lit(<<" ", "b", "/">>),
      Grp(2, <<ManyNot(LineEnd, 1)>>)>>
HUNK_HEADER == <<Lit(<<"@", "@", " ">>), ManyNot(LineEnd, 1), Lit(<<" ", "@", "@">>)>>

DiffStart ==
    [result |-> <<>>, currentFile |-> <<>>, added |-> 0, removed |-> 0,
     inHunk |-> FALSE, hunkLines |-> 0, stopped |-> FALSE]

\* `  +${added} -${removed}`
DiffStats(st) == <<" ", " ", "+">> \o Digits(st.added) \o <<" ", "-">> \o Digits(st.removed)

\* Flush previous file stats.
DiffFlush(st) ==
    IF st.currentFile # <<>> /\ (st.added > 0 \/ st.removed > 0)
    THEN [st EXCEPT !.result = Append(@, DiffStats(st))]
    ELSE st

\* Mutant: the marker is pushed whenever the count has reached the cap.
DiffMark_Again(st) ==
    IF st.hunkLines >= maxHunkLines
    THEN [st EXCEPT !.result = Append(@, <<" ", " ", ".", ".", ".", " ", "(", "t", "r", "u", "n", "c", "a", "t", "e", "d", ")">>), !.hunkLines = @ + 1]
    ELSE st

\* if (hunkLines === maxHunkLines) { result.push("  ... (truncated)"); hunkLines++ }
DiffMark(st) ==
    IF st.hunkLines = maxHunkLines
    THEN [st EXCEPT !.result = Append(@, <<" ", " ", ".", ".", ".", " ", "(", "t", "r", "u", "n", "c", "a", "t", "e", "d", ")">>), !.hunkLines = @ + 1]
    ELSE st

\* result.push(`  ${line}`); hunkLines++
DiffShow(st, line) ==
    [st EXCEPT !.result = Append(@, <<" ", " ">> \o line), !.hunkLines = @ + 1]

\* One iteration of the loop of compactDiff.
DiffLine(st, line, maxLines) ==
    IF Len(st.result) >= maxLines
    THEN [st EXCEPT !.result = Append(@, <<"\n", ".", ".", ".", " ", "(", "m", "o", "r", "e", " ", "c", "h", "a", "n", "g", "e", "s", " ", "t", "r", "u", "n", "c", "a", "t", "e", "d", ")">>),
                    !.stopped = TRUE]
    ELSE IF startsWith(line, <<"d", "i", "f", "f", " ", "-", "-", "g", "i", "t">>)
    THEN LET m == Match(DIFF_HEADER, line)
             file == IF m.ok THEN Group(m, line, 2) ELSE <<"u", "n", "k", "n", "o", "w", "n">>
         IN  [DiffFlush(st) EXCEPT !.result = Append(@, <<"\n", ">", " ">> \o file),
                                   !.currentFile = file,
                                   !.added = 0, !.removed = 0, !.inHunk = FALSE]
    ELSE IF startsWith(line, <<"@", "@">>)
    THEN LET m == Match(HUNK_HEADER, line)
             hunkInfo == IF m.ok THEN SubSeq(line, m.from, m.to - 1) ELSE <<"@", "@">>
         IN  [st EXCEPT !.inHunk = TRUE, !.hunkLines = 0,
                        !.result = Append(@, <<" ", " ">> \o hunkInfo)]
    ELSE IF st.inHunk
    THEN DiffMark(
            IF startsWith(line, <<"+">>) /\ ~startsWith(line, <<"+", "+", "+">>)
            THEN LET counted == [st EXCEPT !.added = @ + 1]
                 IN  IF st.hunkLines < maxHunkLines THEN DiffShow(counted, line)
                     ELSE counted
            ELSE IF startsWith(line, <<"-">>) /\ ~startsWith(line, <<"-", "-", "-">>)
            THEN LET counted == [st EXCEPT !.removed = @ + 1]
                 IN  IF st.hunkLines < maxHunkLines THEN DiffShow(counted, line)
                     ELSE counted
            ELSE IF st.hunkLines < maxHunkLines /\ ~startsWith(line, <<"\\">>)
                    /\ st.hunkLines > 0
            THEN DiffShow(st, line)
            ELSE st)
    ELSE st

\* The loop, which the break ends.
RECURSIVE DiffScan(_, _, _, _)
DiffScan(st, lines, i, maxLines) ==
    IF i > Len(lines) \/ st.stopped THEN st
    ELSE DiffScan(DiffLine(st, lines[i], maxLines), lines, i + 1, maxLines)

compactDiff(output, maxLines) ==
    Join(DiffFlush(DiffScan(DiffStart, Split(output, "\n"), 1, maxLines)).result,
         <<"\n">>)

\* The text of one line of the status summary.
StatusEntryText(entry) ==
    CASE entry.tag = "Branch:" -> <<"B", "r", "a", "n", "c", "h", ":", " ">> \o entry.text
      [] entry.tag = "Staged:" -> <<"S", "t", "a", "g", "e", "d", ":", " ">> \o Digits(entry.n) \o <<" ", "f", "i", "l", "e", "s">>
      [] entry.tag = "Modified:" -> <<"M", "o", "d", "i", "f", "i", "e", "d", ":", " ">> \o Digits(entry.n) \o <<" ", "f", "i", "l", "e", "s">>
      [] entry.tag = "Untracked:" -> <<"U", "n", "t", "r", "a", "c", "k", "e", "d", ":", " ">> \o Digits(entry.n) \o <<" ", "f", "i", "l", "e", "s">>
      [] entry.tag = "Conflicts:" ->
            <<"[", "W", "A", "R", "N", "]", " ", "C", "o", "n", "f", "l", "i", "c", "t", "s", ":", " ">> \o Digits(entry.n) \o <<" ", "f", "i", "l", "e", "s">>
      [] entry.tag = "file" -> <<" ", " ">> \o entry.text
      [] entry.tag = "more" -> <<" ", " ", ".", ".", ".", " ", "+">> \o Digits(entry.n) \o <<" ", "m", "o", "r", "e">>

RECURSIVE StatusLinesText(_)
StatusLinesText(entries) ==
    IF entries = <<>> THEN <<>>
    ELSE StatusEntryText(Head(entries)) \o <<"\n">> \o StatusLinesText(Tail(entries))

\* compactStatus on a text: the summary, every line of it ended by "\n", and
\* trimmed as a whole.
compactStatusText(output) ==
    LET lines == Split(output, "\n")
    IN  IF Len(lines) = 0 \/ (Len(lines) = 1 /\ trim(lines[1]) = <<>>)
        THEN <<"C", "l", "e", "a", "n", " ", "w", "o", "r", "k", "i", "n", "g", " ", "t", "r", "e", "e">>
        ELSE trim(StatusLinesText(StatusEntries(StatusScan(StatusStart, lines, 1))))

\* compactLog(output, limit = 20)
DefaultLogLimit == 20
LogLineLimit == 80
LogLineShown == 77

compactLog(output, limit) ==
    LET lines == Split(output, "\n")
        shown == Take(lines, limit)
    IN  Join([i \in 1..Len(shown) |->
                 IF Len(shown[i]) > LogLineLimit
                 THEN Take(shown[i], LogLineShown) \o <<".", ".", ".">>
                 ELSE shown[i]]
             \o (IF Len(lines) > limit
                 THEN <<<<".", ".", ".", " ", "a", "n", "d", " ">> \o Digits(Len(lines) - limit) \o <<" ", "m", "o", "r", "e", " ", "c", "o", "m", "m", "i", "t", "s">>>>
                 ELSE <<>>),
             <<"\n">>)

compactGitOutput(output, command) ==
    IF command.null \/ ~isGitCommand(command) THEN Null
    ELSE LET cmdLower == toLowerCase(command.text)
         IN  IF startsWith(cmdLower, <<"g", "i", "t", " ", "d", "i", "f", "f">>)
             THEN Str(compactDiff(output, DefaultDiffLines))
             ELSE IF startsWith(cmdLower, <<"g", "i", "t", " ", "s", "t", "a", "t", "u", "s">>)
             THEN Str(compactStatusText(output))
             ELSE IF startsWith(cmdLower, <<"g", "i", "t", " ", "l", "o", "g">>)
             THEN Str(compactLog(output, DefaultLogLimit))
             ELSE Null

\* Linter aggregator (src/unnamed/part_003).
LINTER_COMMANDS ==
    <<<<"e", "s", "l", "i", "n", "t">>, <<"p", "r", "e", "t", "t", "i", "e", "r">>, <<"r", "u", "f", "f">>, <<"p", "y", "l", "i", "n", "t">>, <<"m", "y", "p", "y">>, <<"f", "l", "a", "k", "e", "8">>, <<"b", "l", "a", "c", "k">>,
      <<"c", "l", "i", "p", "p", "y">>, <<"g", "o", "l", "a", "n", "g", "c", "i", "-", "l", "i", "n", "t">>>>

isLinterCommand(command) ==
    IF command.null \/ Len(command.text) = 0 THEN FALSE
    ELSE LET cmdLower == toLowerCase(command.text)
         IN  \E lc \in 1..Len(LINTER_COMMANDS) : includes(cmdLower, LINTER_COMMANDS[lc])

detectLinterType(command) ==
    LET cmdLower == toLowerCase(command)
    IN  IF includes(cmdLower, <<"e", "s", "l", "i", "n", "t">>) THEN <<"E", "S", "L", "i", "n", "t">>
        ELSE IF includes(cmdLower, <<"r", "u", "f", "f">>) THEN <<"R", "u", "f", "f">>
        ELSE IF includes(cmdLower, <<"p", "y", "l", "i", "n", "t">>) THEN <<"P", "y", "l", "i", "n", "t">>
        ELSE IF includes(cmdLower, <<"m", "y", "p", "y">>) THEN <<"M", "y", "P", "y">>
        ELSE IF includes(cmdLower, <<"f", "l", "a", "k", "e", "8">>) THEN <<"F", "l", "a", "k", "e", "8">>
        ELSE IF includes(cmdLower, <<"c", "l", "i", "p", "p", "y">>) THEN <<"C", "l", "i", "p", "p", "y">>
        ELSE IF includes(cmdLower, <<"g", "o", "l", "a", "n", "g", "c", "i">>) THEN <<"G", "o", "l", "a", "n", "g", "C", "I", "-", "L", "i", "n", "t">>
        ELSE IF includes(cmdLower, <<"p", "r", "e", "t", "t", "i", "e", "r">>) THEN <<"P", "r", "e", "t", "t", "i", "e", "r">>
        ELSE <<"L", "i", "n", "t", "e", "r">>

\* /^(.+):(\d+):(\d+):\s*(.+)$/
LINT_FILE_FIRST ==
    <<Bol, Grp(1, <<ManyNot(LineEnd, 1)>>), Lit(<<":">>), Grp(2, <<Many(Digit, 1)>>),
      Lit(<<":">>), Grp(3, <<Many(Digit, 1)>>), Lit(<<":">>), Many(SpaceChar, 0),
      Grp(4, <<ManyNot(LineEnd, 1)>>), Eol>>

\* /^(error|warning):\s*(.+?)\s+at\s+(.+):(\d+):(\d+)$/
LINT_MESSAGE_FIRST ==
    <<Bol, Grp(1, <<Alt(<< <<Lit(<<"e", "r", "r", "o", "r">>)>>, <<Lit(<<"w", "a", "r", "n", "i", "n", "g">>)>> >>)>>), Lit(<<":">>),
      Many(SpaceChar, 0), Grp(2, <<FewNot(LineEnd, 1)>>), Many(SpaceChar, 1),
      Lit(<<"a", "t">>), Many(SpaceChar, 1), Grp(3, <<ManyNot(LineEnd, 1)>>), Lit(<<":">>),
      Grp(4, <<Many(Digit, 1)>>), Lit(<<":">>), Grp(5, <<Many(Digit, 1)>>), Eol>>

\* /\[(.+?)\]$/
LINT_RULE == <<Lit(<<"[">>), Grp(1, <<FewNot(LineEnd, 1)>>), Lit(<<"]">>), Eol>>

\* extracted.content?.match(/\[(.+?)\]$/)?.[1] || "unknown"
LintRule(content) ==
    LET m == Match(LINT_RULE, content)
    IN  IF m.ok THEN Group(m, content, 1) ELSE <<"u", "n", "k", "n", "o", "w", "n">>

NoIssue == [found |-> FALSE]

\* Mutant: the message-first pattern is tried before the file-first pattern.
parseLine_MessageFirst(line) ==
    LET first == Match(LINT_FILE_FIRST, line)
        second == Match(LINT_MESSAGE_FIRST, line)
    IN  IF second.ok
        THEN [found |-> TRUE,
              severity |-> IF Group(second, line, 1) = <<"e", "r", "r", "o", "r">>
                           THEN "ERROR" ELSE "WARNING",
              rule |-> LintRule(Group(second, line, 2)),
              file |-> Group(second, line, 3),
              line |-> parseInt(Group(second, line, 4)),
              message |-> Group(second, line, 2)]
        ELSE IF first.ok
        THEN [found |-> TRUE, severity |-> "ERROR",
              rule |-> LintRule(Group(first, line, 4)),
              file |-> Group(first, line, 1),
              line |-> parseInt(Group(first, line, 2)),
              message |-> Group(first, line, 4)]
        ELSE NoIssue

\* match[1].toUpperCase() of the second pattern is "ERROR" or "WARNING", for
\* match[1] is "error" or "warning".
parseLine(line) ==
    LET first == Match(LINT_FILE_FIRST, line)
        second == Match(LINT_MESSAGE_FIRST, line)
    IN  IF first.ok
        THEN [found |-> TRUE, severity |-> "ERROR",
              rule |-> LintRule(Group(first, line, 4)),
              file |-> Group(first, line, 1),
              line |-> parseInt(Group(first, line, 2)),
              message |-> Group(first, line, 4)]
        ELSE IF second.ok
        THEN [found |-> TRUE,
              severity |-> IF Group(second, line, 1) = <<"e", "r", "r", "o", "r">>
                           THEN "ERROR" ELSE "WARNING",
              rule |-> LintRule(Group(second, line, 2)),
              file |-> Group(second, line, 3),
              line |-> parseInt(Group(second, line, 4)),
              message |-> Group(second, line, 2)]
        ELSE NoIssue

RECURSIVE parseIssues(_, _)
parseIssues(lines, i) ==
    IF i > Len(lines) THEN <<>>
    ELSE LET issue == parseLine(lines[i])
         IN  (IF issue.found THEN <<issue>> ELSE <<>>) \o parseIssues(lines, i + 1)

\* A Map from texts to counts, as the sequence of its entries <<key, count>> in
\* the order of insertion: map.set(key, (map.get(key) || 0) + 1).
CountUp(map, key) ==
    IF \E e \in 1..Len(map) : map[e][1] = key
    THEN [e \in 1..Len(map) |->
             IF map[e][1] = key THEN <<key, map[e][2] + 1>> ELSE map[e]]
    ELSE Append(map, <<key, 1>>)

RECURSIVE CountAll(_, _)
CountAll(map, keys) ==
    IF keys = <<>> THEN map ELSE CountAll(CountUp(map, Head(keys)), Tail(keys))

\* entries.sort((a, b) => b[1] - a[1]): by falling count, and stable.
RECURSIVE ByCount(_)
ByCount(entries) ==
    IF entries = <<>> THEN <<>>
    ELSE LET most == CHOOSE e \in 1..Len(entries) :
                        /\ \A f \in 1..Len(entries) : entries[f][2] <= entries[e][2]
                        /\ \A f \in 1..(e - 1) : entries[f][2] < entries[e][2]
         IN  <<entries[most]>>
                 \o ByCount([f \in 1..(Len(entries) - 1) |->
                                IF f < most THEN entries[f] ELSE entries[f + 1]])

TopRulesShown == 10
TopFilesShown == 10
FileRulesShown == 3
LintPathLimit == 40

\* The rule of 39 characters under the head line.
LintRuleLine == [i \in 1..39 |-> "U+2550"]

\* The lines of one file of "Top files": its issues and their rules.
LintFileRules(sortedFileRules) ==
    Join([r \in 1..Len(sortedFileRules) |->
             <<" ", " ", " ", " ">> \o sortedFileRules[r][1] \o <<" ", "(">>
                 \o Digits(sortedFileRules[r][2]) \o <<")", "\n">>], <<>>)

LintFileIssues(file, fileIssues) ==
    <<" ", " ">> \o compactPath(file, LintPathLimit) \o <<" ", "(">> \o Digits(Len(fileIssues))
        \o <<" ", "i", "s", "s", "u", "e", "s", ")", "\n">>
    \o LintFileRules(
          Take(ByCount(CountAll(<<>>, [i \in 1..Len(fileIssues) |-> fileIssues[i].rule])),
               FileRulesShown))

LintFileText(file, issues) ==
    LintFileIssues(file, SelectSeq(issues, LAMBDA issue : issue.file = file))

\* The report, from the issues and the entries of the two Maps in the order
\* shown.
LintReport(linterType, issues, sortedRules, sortedFiles, files) ==
    linterType \o <<":", " ">>
        \o Digits(Len(SelectSeq(issues, LAMBDA issue : issue.severity = "ERROR")))
        \o <<" ", "e", "r", "r", "o", "r", "s", ",", " ">>
        \o Digits(Len(SelectSeq(issues, LAMBDA issue : issue.severity = "WARNING")))
        \o <<" ", "w", "a", "r", "n", "i", "n", "g", "s", " ", "i", "n", " ">> \o Digits(files) \o <<" ", "f", "i", "l", "e", "s", "\n">>
    \o LintRuleLine \o <<"\n">>
    \o <<"T", "o", "p", " ", "r", "u", "l", "e", "s", ":", "\n">>
    \o Join([r \in 1..Len(sortedRules) |->
                <<" ", " ">> \o sortedRules[r][1] \o <<" ", "(">>
                    \o Digits(sortedRules[r][2]) \o <<"x", ")", "\n">>], <<>>)
    \o <<"\n", "T", "o", "p", " ", "f", "i", "l", "e", "s", ":", "\n">>
    \o Join([f \in 1..Len(sortedFiles) |->
                LintFileText(sortedFiles[f][1], issues)], <<>>)

LintGroupByFile(linterType, issues, sortedRules, byFile) ==
    LintReport(linterType, issues, sortedRules, Take(ByCount(byFile), TopFilesShown),
               Len(byFile))

LintAggregate(linterType, issues) ==
    IF Len(issues) = 0
    THEN <<"[", "O", "K", "]", " ">> \o linterType \o <<":", " ", "N", "o", " ", "i", "s", "s", "u", "e", "s", " ", "f", "o", "u", "n", "d">>
    ELSE LintGroupByFile(
            linterType, issues,
            Take(ByCount(CountAll(<<>>, [i \in 1..Len(issues) |-> issues[i].rule])),
                 TopRulesShown),
            CountAll(<<>>, [i \in 1..Len(issues) |-> issues[i].file]))

aggregateLinterOutput(output, command) ==
    IF command.null \/ ~isLinterCommand(command) THEN Null
    ELSE Str(LintAggregate(detectLinterType(command.text),
                           parseIssues(Split(output, "\n"), 1)))

(***************************************************************************)
(* Engine, command outputs: the tool_result handler for a bash result      *)
(* (src/index.ts:66-138).                                                  *)
(***************************************************************************)

\* truncate(text, maxLength) of src/techniques/truncate.ts
truncate(text, maxLength) ==
    IF Len(text) <= maxLength THEN text
    ELSE IF maxLength < 3 THEN <<".", ".", ".">>
    ELSE Take(text, maxLength - 3) \o <<".", ".", ".">>

\* technique = technique ? `${technique},name` : "name"
Labelled(technique, name) ==
    IF technique = "" THEN name ELSE technique \o "," \o name

\* The handler's variables filteredText and technique, and the record of what
\* each technique did: whether it was called, the working text it was given,
\* what it returned (Null when it was not called or returned null), and
\* whether the handler assigned its result and named it in the label.
BashStart(originalText) == [filteredText |-> originalText, technique |-> "", steps |-> <<>>]

BashStep(name, called, before, out, assigned, labelled) ==
    [name |-> name, called |-> called, before |-> before, out |-> out,
     assigned |-> assigned, labelled |-> labelled]

\* if (flag && isXCommand(command)) { const out = f(filteredText, command);
\*   if (out !== null && out !== filteredText) { filteredText = out; technique = ... } }
BashApply(st, name, called, out) ==
    IF called /\ ~out.null /\ out.text # st.filteredText
    THEN [filteredText |-> out.text,
          technique |-> Labelled(st.technique, name),
          steps |-> Append(st.steps, BashStep(name, TRUE, st.filteredText, out, TRUE, TRUE))]
    ELSE [st EXCEPT !.steps =
             Append(@, BashStep(name, called, st.filteredText,
                                IF called THEN out ELSE Null, FALSE, FALSE))]

\* if (truncation.enabled && filteredText.length > truncation.maxChars) {
\*   filteredText = truncate(filteredText, maxChars); technique = ... }
BashTruncate(st, truncation) ==
    IF truncation.enabled /\ Len(st.filteredText) > truncation.maxChars
    THEN LET out == truncate(st.filteredText, truncation.maxChars)
         IN  [filteredText |-> out,
              technique |-> Labelled(st.technique, "truncate"),
              steps |-> Append(st.steps, BashStep("truncate", TRUE, st.filteredText,
                                                  Str(out), TRUE, TRUE))]
    ELSE [st EXCEPT !.steps =
             Append(@, BashStep("truncate", FALSE, st.filteredText, Null, FALSE, FALSE))]

\* The six techniques, each on the handler's variables as the one before it
\* left them.
BashAnsi(st, t) ==
    BashApply(st, "ansi", t.ansiStripping, Str(stripAnsiFast(st.filteredText)))

BashBuild(st, command, t) ==
    BashApply(st, "build", t.buildOutputFiltering /\ isBuildCommand(command),
              filterBuildOutputText(st.filteredText, command))

BashTest(st, command, t) ==
    BashApply(st, "test", t.testOutputAggregation /\ isTestCommand(command),
              aggregateTestOutputText(st.filteredText, command))

BashGit(st, command, t) ==
    BashApply(st, "git", t.gitCompaction /\ isGitCommand(command),
              compactGitOutput(st.filteredText, command))

BashLinter(st, command, t) ==
    BashApply(st, "linter", t.linterAggregation /\ isLinterCommand(command),
              aggregateLinterOutput(st.filteredText, command))

\* The body of the bash branch up to the comparison with originalText.
BashRun(originalText, command, t) ==
    BashTruncate(
        BashLinter(
            BashGit(
                BashTest(
                    BashBuild(BashAnsi(BashStart(originalText), t), command, t),
                    command, t),
                command, t),
            command, t),
        t.truncation)

\* The commands and the texts of the bash results tried.
BashCommandsTried ==
    {Null, Str(<<"l", "s">>), Str(<<"c", "a", "r", "g", "o", " ", "b", "u", "i", "l", "d">>), Str(<<"c", "a", "r", "g", "o", " ", "t", "e", "s", "t">>),
     Str(<<"c", "a", "r", "g", "o", " ", "b", "u", "i", "l", "d", " ", "&", "&", " ", "c", "a", "r", "g", "o", " ", "t", "e", "s", "t">>), Str(<<"g", "i", "t", " ", "s", "t", "a", "t", "u", "s">>), Str(<<"g", "i", "t", " ", "l", "o", "g", " ", "-", "3">>),
     Str(<<"e", "s", "l", "i", "n", "t", " ", ".">>), Str(<<"g", "i", "t", " ", "s", "t", "a", "t", "u", "s", " ", "&", "&", " ", "m", "a", "k", "e", " ", "t", "e", "s", "t", " ", "&", "&", " ", "e", "s", "l", "i", "n", "t", " ", ".">>)}

BashTextsTried ==
    {<<>>, <<".", ".", ".">>, <<ESC>> \o <<"[", "m", ".", ".", ".">>, <<ESC>> \o <<"[", "0", "m", "o", "k">>,
     <<" ", " ", " ", "C", "o", "m", "p", "i", "l", "i", "n", "g", " ", "a", " ", "v", "1", "\n", "e", "r", "r", "o", "r", ":", " ", "x", "\n", " ", " ", "-", "-", ">", " ", "a", ".", "r", "s", ":", "1", ":", "2", "\n">>,
     <<"[", "O", "K", "]", " ", "B", "u", "i", "l", "d", " ", "s", "u", "c", "c", "e", "s", "s", "f", "u", "l", " ", "(", "0", " ", "u", "n", "i", "t", "s", " ", "c", "o", "m", "p", "i", "l", "e", "d", ")">>,
     <<"T", "e", "s", "t", "s", ":", " ", "2", " ", "p", "a", "s", "s", "e", "d", ",", " ", "1", " ", "f", "a", "i", "l", "e", "d", "\n", "F", "A", "I", "L", " ", "a", "\n", " ", " ", "a", "t", " ", "b">>,
     <<" ", "M", " ", "a", ".", "t", "s", "\n", "?", "?", " ", "b">>,
     <<"a", ".", "j", "s", ":", "1", ":", "2", ":", " ", "b", "a", "d", " ", "[", "r", "1", "]">>,
     <<"[", "O", "K", "]", " ", "E", "S", "L", "i", "n", "t", ":", " ", "N", "o", " ", "i", "s", "s", "u", "e", "s", " ", "f", "o", "u", "n", "d">>,
     <<"0", "1", "2", "3", "4", "5", "6", "7", "8", "9">>}

\* A bash result arrives.
BashEvent(command, text) == [tool |-> "bash", input |-> command, text |-> text]

BashArrives ==
    /\ event.tool = "none"
    /\ last.tool = "none"
    /\ \E command \in BashCommandsTried, text \in BashTextsTried :
          event' = BashEvent(command, text)
    /\ UNCHANGED <<heap, config, enabled, loaded, load, commands, processedCount,
                   metrics, last>>
    /\ UNCHANGED notEngine

\* What the handler did with the bash result: the techniques' steps, the
\* label, and the text it returned (Null when it returned nothing).
BashOutcome(ran, returned) ==
    [tool |-> "bash", command |-> event.input, text |-> event.text,
     steps |-> ran.steps, technique |-> ran.technique, returned |-> returned]

\* if (filteredText !== originalText) { trackSavings(...); processedCount++;
\*   return { content: ... } }
BashReturn(originalText, ran) ==
    IF ran.filteredText # originalText
    THEN /\ metrics' = Append(metrics,
                trackSavings(originalText, ran.filteredText, "bash", ran.technique))
         /\ processedCount' = processedCount + 1
         /\ last' = BashOutcome(ran, Str(ran.filteredText))
    ELSE /\ last' = BashOutcome(ran, Null)
         /\ UNCHANGED <<metrics, processedCount>>

\* tool_result for a bash result.
BashResult ==
    /\ event.tool = "bash"
    /\ event' = NoEvent
    /\ IF enabled
       THEN BashReturn(event.text, BashRun(event.text, event.input,
                                           Techniques(heap, config)))
       ELSE /\ last' = BashOutcome(BashStart(event.text), Null)
            /\ UNCHANGED <<metrics, processedCount>>
    /\ UNCHANGED <<heap, config, enabled, loaded, load, commands>>
    /\ UNCHANGED notEngine

\* The parameters of rtk_configure the bash path is tried with.
BashParamsTried ==
    {[NoParams EXCEPT !.truncationMaxChars = Some(n)] : n \in MaxCharsTried}
    \cup {[NoParams EXCEPT !.truncationEnabled = Some(FALSE)],
          [NoParams EXCEPT !.buildOutputFiltering = Some(FALSE)],
          [NoParams EXCEPT !.ansiStripping = Some(FALSE)]}

BashConfigure == RtkConfigureWith(BashParamsTried)

(***************************************************************************)
(* Test aggregator on texts: a call of aggregateTestOutput on an output    *)
(* given by its characters, built line by line.                            *)
(***************************************************************************)
MaxTestTextLines == 2

TestTextsTried ==
    {<<"t", "e", "s", "t", " ", "r", "e", "s", "u", "l", "t", ":", " ", "o", "k", ".", " ", "3", " ", "p", "a", "s", "s", "e", "d", ";", " ", "1", " ", "f", "a", "i", "l", "e", "d", ";">>,
     <<"t", "e", "s", "t", " ", "r", "e", "s", "u", "l", "t", ":", " ", "o", "k", ".", " ", "0", " ", "p", "a", "s", "s", "e", "d", ";", " ", "0", " ", "f", "a", "i", "l", "e", "d", ";">>,
     <<"2", " ", "p", "a", "s", "s", "e", "d", ",", " ", "1", " ", "f", "a", "i", "l", "e", "d", ",", " ", "4", " ", "s", "k", "i", "p", "p", "e", "d">>,
     <<"T", "e", "s", "t", "s", ":", " ", "0", " ", "p", "a", "s", "s", "e", "d", ",", " ", "2", " ", "f", "a", "i", "l", "e", "d">>,
     <<"0", " ", "p", "a", "s", "s">>,
     <<"3">>,
     <<"p", "a", "s", "s", "e", "d">>,
     <<"o", "k", " ", "a">>,
     <<"F", "A", "I", "L", " ", "b">>,
     <<"i", "t", " ", "d", "i", "d", " ", "f", "a", "i", "l", ":", " ", "x">>,
     <<"f", "a", "i", "l", "e", "d">>}

\* The output whose lines are tLines.
TestText(lines) == Join([i \in 1..Len(lines) |-> lines[i].chars], <<"\n">>)

TestTextInit ==
    /\ tPc = "text"
    /\ tCommand \in {CmdCargoTest, CmdLs}
    /\ tLines = <<>>
    /\ tSummary = NoSummary
    /\ tIdx = 0
    /\ test = TestScanStart
    /\ tResult = Null

\* The output gets one more line.
TestTextLine ==
    /\ tPc = "text"
    /\ Len(tLines) < MaxTestTextLines
    /\ \E chars \in TestTextsTried : tLines' = Append(tLines, TextLine(chars))
    /\ UNCHANGED <<tPc, tCommand, tSummary, tIdx, test, tResult, notTest>>

\* One whole call of aggregateTestOutput on the text.
TestTextCall ==
    /\ tPc = "text"
    /\ tLines # <<>>
    /\ tResult' = aggregateTestOutputText(TestText(tLines), tCommand)
    /\ tPc' = "done"
    /\ UNCHANGED <<tCommand, tLines, tSummary, tIdx, test, notTest>>

(***************************************************************************)
(* The two block scanners side by side: the loop body of filterBuildOutput *)
(* (src/README.md:219-270) and that of aggregateTestOutput                 *)
(* (src/techniques/test-output.ts:106-138) are given the same lines, each  *)
(* reading them with its own patterns.                                     *)
(***************************************************************************)
MaxLockLines == 5

LockLinesTried ==
    {<<"F", "A", "I", "L", " ", "a">>, <<>>, <<" ", " ", "a", "t", " ", "b">>, <<"x">>, <<"-", " ", "y">>, <<"w", "a", "r", "n", "i", "n", "g", ":", " ", "w">>}

LockInit ==
    /\ bPc = "lock"
    /\ bCommand = Null
    /\ bLines = <<>>
    /\ build = BuildScanStart
    /\ bResult = Null
    /\ tPc = "lock"
    /\ tCommand = Null
    /\ tLines = <<>>
    /\ tSummary = NoSummary
    /\ tIdx = 0
    /\ test = TestScanStart
    /\ tResult = Null

\* Both loops take the next line.
LockLine ==
    /\ bPc = "lock"
    /\ tPc = "lock"
    /\ tIdx < MaxLockLines
    /\ tIdx' = tIdx + 1
    /\ \E chars \in LockLinesTried :
          /\ bLines' = Append(bLines, BuildKindOf(chars))
          /\ build' = BuildScanLine(build, BuildKindOf(chars), tIdx + 1)
          /\ tLines' = Append(tLines, TextLine(chars))
          /\ test' = TestScanLine(test, TextLine(chars), tIdx + 1)
    /\ UNCHANGED <<bPc, bCommand, bResult, tPc, tCommand, tSummary, tResult>>
    /\ UNCHANGED <<ansiVars, pathVars, statusVars, searchVars, filterVars, truncVars,
                   cmdVars, engineVars, outVars>>

\* Both loops are over: each flushes its open block.
LockEnd ==
    /\ bPc = "lock"
    /\ tPc = "lock"
    /\ build' = BuildFlushFinal(build)
    /\ test' = TestFlushFinal(test)
    /\ bPc' = "done"
    /\ tPc' = "done"
    /\ UNCHANGED <<bCommand, bLines, bResult, tCommand, tLines, tSummary, tIdx, tResult>>
    /\ UNCHANGED <<ansiVars, pathVars, statusVars, searchVars, filterVars, truncVars,
                   cmdVars, engineVars, outVars>>

(***************************************************************************)
(* Compactors of command output called on their own: the linter aggregator *)
(* (src/unnamed/part_003:92-155) and the diff compactor                    *)
(* (src/techniques/git.ts:13-90).  The output is built line by line, then  *)
(* the compactor is called on the lines joined by "\n".                    *)
(***************************************************************************)
OutIdle ==
    /\ oPc = "idle"
    /\ oCommand = Null
    /\ oLines = <<>>
    /\ oMax = 0
    /\ oResult = Null

OutText == Join(oLines, <<"\n">>)

MaxLintLines == 3

LintCommandsTried == {Str(<<"e", "s", "l", "i", "n", "t", " ", ".">>), Str(<<"c", "a", "r", "g", "o", " ", "c", "l", "i", "p", "p", "y">>), Str(<<"l", "s">>)}

LintLinesTried ==
    {<<"a", ".", "j", "s", ":", "1", ":", "2", ":", " ", "x", " ", "[", "r", "]">>, <<"w", "a", "r", "n", "i", "n", "g", ":", " ", "w", " ", "a", "t", " ", "b", ":", "3", ":", "4">>, <<"e", "r", "r", "o", "r", ":", " ", "e", " ", "a", "t", " ", "b", ":", "3", ":", "4">>,
     <<"w", "a", "r", "n", "i", "n", "g", ":", " ", "w", " ", "a", "t", " ", "b", ":", "3", ":", "4", ":", " ", "c", ":", "5", ":", "6">>, <<"n", "o", "t", "e">>, <<>>}

LintInit ==
    /\ oPc = "lint"
    /\ oCommand \in LintCommandsTried
    /\ oLines = <<>>
    /\ oMax = 0
    /\ oResult = Null

\* The linter prints one more line.
LintLine ==
    /\ oPc = "lint"
    /\ Len(oLines) < MaxLintLines
    /\ \E line \in LintLinesTried : oLines' = Append(oLines, line)
    /\ UNCHANGED <<oPc, oCommand, oMax, oResult>>
    /\ UNCHANGED notOut

\* aggregateLinterOutput(output, command)
LintCall ==
    /\ oPc = "lint"
    /\ oResult' = aggregateLinterOutput(OutText, oCommand)
    /\ oPc' = "linted"
    /\ UNCHANGED <<oCommand, oLines, oMax>>
    /\ UNCHANGED notOut

\* compactDiff on outputs that arrive in pieces: a piece is one line, or a
\* run of maxHunkLines added lines.  oResult.scan holds the variables of the
\* loop.
MaxDiffPieces == 4

DiffPiecesTried ==
    {<<<<"d", "i", "f", "f", " ", "-", "-", "g", "i", "t", " ", "a", "/", "f", " ", "b", "/", "g">>>>, <<<<"@", "@", " ", "-", "1", " ", "+", "1", " ", "@", "@">>>>, <<<<"+", "a">>>>, <<<<"-", "b">>>>, <<<<" ", "c">>>>,
     Repeat(<<"+", "a">>, maxHunkLines)}

DiffMaxTried == {2, 3, maxHunkLines + 2, DefaultDiffLines}

DiffInit ==
    /\ oPc = "diff"
    /\ oCommand = Null
    /\ oLines = <<>>
    /\ oMax \in DiffMaxTried
    /\ oResult = [scan |-> DiffStart, pieces |-> 0]

\* The loop of compactDiff goes over the next lines of the output; after the
\* break the lines are not looked at.
DiffPiece ==
    /\ oPc = "diff"
    /\ oResult.pieces < MaxDiffPieces
    /\ \E piece \in DiffPiecesTried :
          /\ oLines' = oLines \o piece
          /\ oResult' = [scan |-> DiffScan(oResult.scan, piece, 1, oMax),
                          pieces |-> oResult.pieces + 1]
    /\ UNCHANGED <<oPc, oCommand, oMax>>
    /\ UNCHANGED notOut

\* The output is over: the last file's stats are flushed.
DiffEnd ==
    /\ oPc = "diff"
    /\ oLines # <<>>
    /\ oResult' = [oResult EXCEPT !.scan = DiffFlush(@)]
    /\ oPc' = "diffed"
    /\ UNCHANGED <<oCommand, oLines, oMax>>
    /\ UNCHANGED notOut

\* compactStatus on outputs that arrive in pieces: a piece is one line, or a
\* run of lines of the same status.  Before the call oResult counts the
\* pieces.
MaxStatusPieces == 3

StatusPiecesTried ==
    {<<<<"#", "#", " ", "m", "a", "i", "n", ".", ".", ".", "o", "r", "i", "g", "i", "n", "/", "m", "a", "i", "n">>>>, <<<<"M", "M", " ", "f">>>>, <<<<"U", "U", " ", "g">>>>, <<<<" ", "D", " ", "h">>>>, <<<<"?", "?", " ", "i">>>>,
     <<<<"R", " ", " ", "j">>>>,
     Repeat(<<"A", " ", " ", "a">>, MaxStagedShown), Repeat(<<" ", "M", " ", "b">>, MaxModifiedShown),
     Repeat(<<"?", "?", " ", "c">>, MaxUntrackedShown)}

StatusPiecesInit ==
    /\ oPc = "status"
    /\ oCommand = Null
    /\ oLines = <<>>
    /\ oMax = 0
    /\ oResult = [pieces |-> 0]

\* git prints more lines.
StatusPiece ==
    /\ oPc = "status"
    /\ oResult.pieces < MaxStatusPieces
    /\ \E piece \in StatusPiecesTried : oLines' = oLines \o piece
    /\ oResult' = [pieces |-> oResult.pieces + 1]
    /\ UNCHANGED <<oPc, oCommand, oMax>>
    /\ UNCHANGED notOut

\* compactStatus(output)
StatusCall ==
    /\ oPc = "status"
    /\ oResult' = compactStatus(OutText)
    /\ oPc' = "statused"
    /\ UNCHANGED <<oCommand, oLines, oMax>>
    /\ UNCHANGED notOut

\* filterMinimal on a typescript file that is read line by line: fResult
\* holds the variables of the loop, and the filtered text once the loop and
\* the normalisation are done.
MaxMinimalLines == 5

MinimalLinesTried ==
    {SrcLine(k) : k \in {"stmt", "blank", "comment", "block", "blockOpen",
                         "blockClose", "doc"}}

MinimalStart == [result |-> <<>>, inBlockComment |-> FALSE]

MinimalInit ==
    /\ fPc = "minimal"
    /\ fContent = <<>>
    /\ fLanguage = "typescript"
    /\ fResult = MinimalStart

\* One iteration of the loop over the lines of the file.
MinimalFeed ==
    /\ fPc = "minimal"
    /\ Len(fContent) < MaxMinimalLines
    /\ \E line \in MinimalLinesTried :
          /\ fContent' = Append(fContent, line)
          /\ fResult' = MinimalLine(fResult, line)
    /\ UNCHANGED <<fPc, fLanguage, notFilter>>

\* After the loop: result.join("\n").replace(/\n{3,}/g, "\n\n").trim()
MinimalEnd ==
    /\ fPc = "minimal"
    /\ fContent # <<>>
    /\ fResult' = SplitLines(trimText(CollapseNewlines(JoinLines(fResult.result))))
    /\ fPc' = "done"
    /\ UNCHANGED <<fContent, fLanguage, notFilter>>

\* filterAggressive on a typescript file with the loop in steps.  The lines
\* fed are those of the output of filterMinimal: no comment, no blank line
\* at either end, no two blank lines in a row.  fResult holds the variables
\* of the loop, and the filtered text once the loop is over.
MaxAggressiveLines == 5

AggressiveLinesTried ==
    {SrcLine(k) : k \in {"import", "sig", "sigOpen", "open", "close", "stmt",
                         "stmtOpen", "const", "blank"}}

AggressiveStart == [result |-> <<>>, inImplementation |-> FALSE, braceDepth |-> 0]

AggressiveInit ==
    /\ fPc = "aggressive"
    /\ fContent = <<>>
    /\ fLanguage = "typescript"
    /\ fResult = AggressiveStart

\* One iteration of the loop over the lines of minimal.
AggressiveFeed ==
    /\ fPc = "aggressive"
    /\ Len(fContent) < MaxAggressiveLines
    /\ \E line \in AggressiveLinesTried :
          /\ line = EmptyLine =>
                fContent # <<>> /\ fContent[Len(fContent)] # EmptyLine
          /\ fContent' = Append(fContent, line)
          /\ fResult' = AggressiveLine(fResult, line)
    /\ UNCHANGED <<fPc, fLanguage, notFilter>>

\* After the loop: result.join("\n").trim()
AggressiveEnd ==
    /\ fPc = "aggressive"
    /\ fContent # <<>>
    /\ fContent[Len(fContent)] # EmptyLine
    /\ fResult' = SplitLines(trimText(JoinLines(fResult.result)))
    /\ fPc' = "done"
    /\ UNCHANGED <<fContent, fLanguage, notFilter>>

(***************************************************************************)
(* smartTruncate taken one line of its loop at a time                      *)
(* (src/unnamed/part_002:190-229).  kResult holds the loop's variables,    *)
(* the number of lines read and whether the break was taken.               *)
(***************************************************************************)

\* The loop's variables before the first line.
TruncateStart ==
    [result |-> <<>>, keptLines |-> 0, skippedSection |-> FALSE,
     read |-> 0, stopped |-> FALSE]

\* The loop's variables without the position of the loop.
TruncateVars(st) ==
    [result |-> st.result, keptLines |-> st.keptLines,
     skippedSection |-> st.skippedSection]

\* The loop's variables after a pass over the read-th line.
StepOfTruncate(next, read, maxLines) ==
    [result |-> next.result, keptLines |-> next.keptLines,
     skippedSection |-> next.skippedSection,
     read |-> read, stopped |-> TruncateBreaks(next, maxLines)]

\* A call of smartTruncate on the file: a file within the budget is
\* returned as it is, a longer one enters the loop.
TruncEnter ==
    /\ kPc = "read"
    /\ kContent # <<>>
    /\ \E maxLines \in 1..MaxBudget :
          /\ kMaxLines' = maxLines
          /\ IF Len(kContent) <= maxLines
             THEN kResult' = kContent /\ kPc' = "done"
             ELSE kResult' = TruncateStart /\ kPc' = "loop"
    /\ UNCHANGED <<kContent, notTrunc>>

\* One pass of the loop.
TruncStep ==
    /\ kPc = "loop"
    /\ ~kResult.stopped
    /\ kResult.read < Len(kContent)
    /\ kResult' =
          StepOfTruncate(TruncateLine(TruncateVars(kResult),
                             kContent[kResult.read + 1], Len(kContent), kMaxLines),
                         kResult.read + 1, kMaxLines)
    /\ UNCHANGED <<kPc, kContent, kMaxLines, notTrunc>>

\* The loop is over: the summary and the return.
TruncEnd ==
    /\ kPc = "loop"
    /\ kResult.stopped \/ kResult.read = Len(kContent)
    /\ kResult' = TruncateFinish(TruncateVars(kResult), Len(kContent))
    /\ kPc' = "done"
    /\ UNCHANGED <<kContent, kMaxLines, notTrunc>>

(***************************************************************************)
(* Engine, metrics: tool results of the three kinds dispatched one after   *)
(* the other, the grep path of the handler (src/index.ts:180-201) and      *)
(* rtk-clear (src/index.ts:281-288, clearMetrics of                        *)
(* src/unnamed/part_000:42-44).                                            *)
(***************************************************************************)

\* Most records in the metrics before the results stop arriving.
MaxMetrics == 2

\* A grep result.
GrepEvent(text) == [tool |-> "grep", input |-> <<>>, text |-> text]

\* The results tried: for each tool some that the handler replaces and some
\* that it leaves alone.
BashEventsTried ==
    { BashEvent(Str(<<"l", "s">>), <<ESC>> \o <<"[", "0", "m", "o", "k">>),
      BashEvent(Str(<<"l", "s">>), <<".", ".", ".">>),
      BashEvent(Str(<<"g", "i", "t", " ", "s", "t", "a", "t", "u", "s">>),
                <<" ", "M", " ", "a", ".", "t", "s", "\n", "?", "?", " ", "b">>) }

ReadEventsTried ==
    { [tool |-> "read", input |-> <<"a", ".", "t", "s">>,
       text |-> <<SrcLine("comment"), SrcLine("stmt")>>],
      [tool |-> "read", input |-> <<"a", ".", "t", "s">>,
       text |-> <<SrcLine("stmt")>>],
      [tool |-> "read", input |-> <<"a", ".", "t", "x", "t">>,
       text |-> <<SrcLine("comment")>>] }

GrepEventsTried ==
    { GrepEvent(<<SLine("match", 1), SLine("match", 2), SLine("match", 1)>>),
      GrepEvent(<<SLine("nomatch", 0)>>) }

\* The next tool result arrives.
ResultArrives ==
    /\ event.tool = "none"
    /\ Len(metrics) < MaxMetrics
    /\ \/ \E e \in BashEventsTried : event' = e
       \/ \E e \in ReadEventsTried : event' = e
       \/ \E e \in GrepEventsTried : event' = e
    /\ UNCHANGED <<heap, config, enabled, loaded, load, commands, processedCount,
                   metrics, last>>
    /\ UNCHANGED notEngine

\* What the handler did with the grep result.
GrepOutcome(returned) ==
    [tool |-> "grep", text |-> event.text, returned |-> returned]

\* tool_result for a grep result.
GrepResult ==
    /\ event.tool = "grep"
    /\ event' = NoEvent
    /\ LET originalText == event.text
           grouped == groupSearchResults(originalText, DefaultMaxResults)
       IN  IF /\ enabled
              /\ Techniques(heap, config).searchResultGrouping
              /\ ~grouped.null
              /\ grouped.text # originalText
           THEN /\ metrics' = Append(metrics,
                       trackSavings(originalText, grouped.text, "grep", "search"))
                /\ processedCount' = processedCount + 1
                /\ last' = GrepOutcome(grouped)
           ELSE /\ last' = GrepOutcome(Null)
                /\ UNCHANGED <<metrics, processedCount>>
    /\ UNCHANGED <<heap, config, enabled, loaded, load, commands>>
    /\ UNCHANGED notEngine

\* rtk-clear that leaves processedCount as it is.
RtkClear_MetricsOnly ==
    /\ commands < MaxCommands
    /\ commands' = commands + 1
    /\ metrics' = <<>>
    /\ last' = [tool |-> "rtk-clear"]
    /\ UNCHANGED <<heap, config, enabled, loaded, load, processedCount, event>>
    /\ UNCHANGED notEngine

\* rtk-clear: clearMetrics(), processedCount = 0 and the notification.
RtkClear ==
    /\ commands < MaxCommands
    /\ commands' = commands + 1
    /\ metrics' = <<>>
    /\ processedCount' = 0
    /\ last' = [tool |-> "rtk-clear"]
    /\ UNCHANGED <<heap, config, enabled, loaded, load, event>>
    /\ UNCHANGED notEngine

(***************************************************************************)
(* Specifications.                                                         *)
(***************************************************************************)

\* Every technique but c is idle.
IdleExcept(c) ==
    /\ IF c = "ansi" THEN TRUE ELSE AnsiIdle
    /\ IF c = "build" THEN TRUE ELSE BuildIdle
    /\ IF c = "test" THEN TRUE ELSE TestIdle
    /\ IF c = "path" THEN TRUE ELSE PathIdle
    /\ IF c = "status" THEN TRUE ELSE StatusIdle
    /\ IF c = "search" THEN TRUE ELSE SearchIdle
    /\ IF c = "filter" THEN TRUE ELSE FilterIdle
    /\ IF c = "trunc" THEN TRUE ELSE TruncIdle
    /\ IF c = "cmd" THEN TRUE ELSE CmdIdle
    /\ IF c = "engine" THEN TRUE ELSE EngineIdle
    /\ IF c = "out" THEN TRUE ELSE OutIdle

InitAnsi == AnsiInit /\ IdleExcept("ansi")
NextAnsi == AnsiStrip \/ AnsiStripAgain
SpecAnsi == InitAnsi /\ [][NextAnsi]_vars

\* The build scanner fed line by line.
InitBuild == BuildInit /\ IdleExcept("build")
NextBuild == BuildEnter \/ BuildLine \/ BuildEnd
SpecBuild == InitBuild /\ [][NextBuild]_vars

\* filterBuildOutput called on whole outputs, over many commands.
InitBuildCmd == BuildCmdInit /\ IdleExcept("build")
NextBuildCmd == BuildCall
SpecBuildCmd == InitBuildCmd /\ [][NextBuildCmd]_vars

\* aggregateTestOutput called on whole outputs.
InitTest == TestInit /\ IdleExcept("test")
NextTest == TestCall
SpecTest == InitTest /\ [][NextTest]_vars

\* The two block scanners, each stepped through its lines.
InitScan ==
    \/ BuildInit /\ IdleExcept("build")
    \/ TestScanInit /\ IdleExcept("test")
NextScan ==
    \/ BuildEnter \/ BuildLine \/ BuildEnd
    \/ TestEnter \/ TestLine \/ TestEnd \/ TestReport
SpecScan == InitScan /\ [][NextScan]_vars

InitPath == PathInit /\ IdleExcept("path")
NextPath == PathCompact
SpecPath == InitPath /\ [][NextPath]_vars

InitStatus == StatusInit /\ IdleExcept("status")
NextStatus == StatusCompact
SpecStatus == InitStatus /\ [][NextStatus]_vars

InitSearch == SearchInit /\ IdleExcept("search")
NextSearch == SearchLine \/ SearchGroup
SpecSearch == InitSearch /\ [][NextSearch]_vars

InitAggressive == FilterInit /\ IdleExcept("filter")
NextAggressive == FilterLine \/ FilterAggressive
SpecAggressive == InitAggressive /\ [][NextAggressive]_vars

InitTruncate == TruncInit /\ IdleExcept("trunc")
NextTruncate == TruncLine \/ TruncCall
SpecTruncate == InitTruncate /\ [][NextTruncate]_vars

InitTestCmd == CmdInit /\ IdleExcept("cmd")
NextTestCmd == CmdPiece \/ CmdIsTest
SpecTestCmd == InitTestCmd /\ [][NextTestCmd]_vars

\* filterBuildOutput stepped through long outputs.
InitBuildReport == BuildInit /\ IdleExcept("build")
NextBuildReport == BuildEnter \/ BuildReportLine \/ BuildEnd
SpecBuildReport == InitBuildReport /\ [][NextBuildReport]_vars

\* The configuration: the load of session_start and the commands.
InitConfig == IdleExcept("none")
NextConfig ==
    \/ SessionStart
    \/ LoadRead
    \/ RtkOn
    \/ RtkOff
    \/ RtkToggle
    \/ RtkConfigure
SpecConfig == InitConfig /\ [][NextConfig]_vars

\* The read path of the handler, under the configurations the commands make.
InitRead == ReadInit /\ IdleExcept("engine")
NextRead ==
    \/ ReadLine
    \/ ReadResult
    \/ RtkConfigure
    \/ RtkOff
    \/ RtkOn
SpecRead == InitRead /\ [][NextRead]_vars

\* The command-output path: a bash result arrives and is dispatched, while
\* rtk_configure, /rtk-off and /rtk-on change the configuration.
InitBash == IdleExcept("none")
NextBash ==
    \/ BashArrives
    \/ BashResult
    \/ BashConfigure
    \/ RtkOff
    \/ RtkOn
SpecBash == InitBash /\ [][NextBash]_vars

\* aggregateTestOutput on outputs given by their characters.
InitTestText == TestTextInit /\ IdleExcept("test")
NextTestText == TestTextLine \/ TestTextCall
SpecTestText == InitTestText /\ [][NextTestText]_vars

\* The build scanner and the test scanner on the same lines.
InitLock ==
    /\ LockInit
    /\ AnsiIdle /\ PathIdle /\ StatusIdle /\ SearchIdle /\ FilterIdle /\ TruncIdle
    /\ CmdIdle /\ EngineIdle /\ OutIdle
NextLock == LockLine \/ LockEnd
SpecLock == InitLock /\ [][NextLock]_vars

\* The linter aggregator on outputs built line by line.
InitLint == LintInit /\ IdleExcept("out")
NextLint == LintLine \/ LintCall
SpecLint == InitLint /\ [][NextLint]_vars

\* compactDiff on outputs built piece by piece.
InitDiff == DiffInit /\ IdleExcept("out")
NextDiff == DiffPiece \/ DiffEnd
SpecDiff == InitDiff /\ [][NextDiff]_vars

\* compactStatus on outputs built piece by piece.
InitStatusPieces == StatusPiecesInit /\ IdleExcept("out")
NextStatusPieces == StatusPiece \/ StatusCall
SpecStatusPieces == InitStatusPieces /\ [][NextStatusPieces]_vars

\* filterMinimal with the loop in steps.
InitMinimal == MinimalInit /\ IdleExcept("filter")
NextMinimal == MinimalFeed \/ MinimalEnd
SpecMinimal == InitMinimal /\ [][NextMinimal]_vars

\* filterAggressive with the loop in steps.
InitAggressiveSteps == AggressiveInit /\ IdleExcept("filter")
NextAggressiveSteps == AggressiveFeed \/ AggressiveEnd
SpecAggressiveSteps == InitAggressiveSteps /\ [][NextAggressiveSteps]_vars

InitTruncateSteps == TruncInit /\ IdleExcept("trunc")
NextTruncateSteps == TruncLine \/ TruncEnter \/ TruncStep \/ TruncEnd
SpecTruncateSteps == InitTruncateSteps /\ [][NextTruncateSteps]_vars

\* The metrics: results of the three tools dispatched one after the other,
\* with rtk-clear, rtk-off and rtk-on between them.
InitMetrics == IdleExcept("none")
NextMetrics ==
    \/ ResultArrives
    \/ BashResult
    \/ ReadResult
    \/ GrepResult
    \/ RtkClear
    \/ RtkOff
    \/ RtkOn
SpecMetrics == InitMetrics /\ [][NextMetrics]_vars

\* The switch: rtk-off and rtk-on while the load of session_start is
\* pending or done, and tool results dispatched between them.
InitSession == IdleExcept("none")
NextSession ==
    \/ SessionStart
    \/ LoadRead
    \/ RtkOff
    \/ RtkOn
    \/ ResultArrives
    \/ BashResult
    \/ ReadResult
    \/ GrepResult
SpecSession == InitSession /\ [][NextSession]_vars

(***************************************************************************)
(* C1.  ANSI stripping is idempotent: stripping a stripped text changes    *)
(* nothing, for stripAnsiFast (and so for stripAnsi, which it calls).      *)
(***************************************************************************)
C1_StripIdempotent == ansiPc = "twice" => ansiTwice = ansiOnce

(***************************************************************************)
(* C6.  In the report of groupSearchResults every displayed file group     *)
(* with M > 10 matches holds exactly its first 10 matches, then one        *)
(* "+(M-10) more" line; a group with M <= 10 matches holds all of them and *)
(* no "+K more" line.                                                      *)
(***************************************************************************)
\* The positions, in input order, of the lines "file:n:content" of a file.
MatchesOfFile(file) ==
    SelectSeq([i \in 1..Len(gOutput) |-> i], LAMBDA i : gOutput[i] = SLine("match", file))

C6_GroupAt(j) ==
    LET out == gResult.text
        mine == MatchesOfFile(out[j].a)
        M == Len(mine)
        n == IF M > 10 THEN 10 ELSE M
    IN  /\ out[j].b = M
        /\ Len(out) >= j + n + 1
        /\ \A k \in 1..n : out[j + k] = SEntry("match", mine[k], 0)
        /\ IF M > 10
           THEN /\ Len(out) >= j + n + 2
                /\ out[j + n + 1] = SEntry("more", M - 10, 0)
                /\ out[j + n + 2].tag = "blank"
           ELSE out[j + n + 1].tag = "blank"

C6_PerFileCap ==
    (gPc = "done" /\ ~gResult.null) =>
        \A j \in 1..Len(gResult.text) :
            gResult.text[j].tag = "file" => C6_GroupAt(j)

\* 11 matches in one file: 10 shown, then "+1 more".
C6_Witness ==
    /\ gPc = "done"
    /\ gOutput = [i \in 1..11 |-> SLine("match", 1)]
    /\ gResult.text[13] = SEntry("more", 1, 0)

(***************************************************************************)
(* C7.  For a build command, an output with no error-start line and no     *)
(* warning line is reported as exactly                                     *)
(* "[OK] Build successful (N units compiled)", N the number of unit-start  *)
(* lines of the output.                                                    *)
(***************************************************************************)
C7_BuildOk ==
    (/\ bPc = "done"
     /\ bCommand = CmdGoBuild
     /\ \A i \in 1..Len(bLines) : bLines[i] \notin {"error", "warning"})
    => bResult = Str(<<<<"[OK] Build successful", Count(bLines, {"unit"})>>>>)

\* "go build" on two "Compiling foo" lines: 2 units compiled.
C7_Witness ==
    /\ bPc = "done"
    /\ bCommand = CmdGoBuild
    /\ bLines = <<"unit", "unit">>
    /\ bResult = Str(<<<<"[OK] Build successful", 2>>>>)

(***************************************************************************)
(* C8.  filterBuildOutput returns null exactly when the command is not a   *)
(* string that contains, whatever the case of its letters, one of the      *)
(* build-tool invocations; for a build command the report is never null,   *)
(* whatever the output.                                                    *)
(***************************************************************************)
\* The commands tried that contain a build-tool invocation: "go build",
\* "Go Build ./x", "make", "MAKE all", "remake" and "tsc".
BuildCommandsTried == {
    CmdGoBuild,
    Str(<<"G", "o", " ", "B", "u", "i", "l", "d", " ", ".", "/", "x">>),
    Str(<<"m", "a", "k", "e">>),
    Str(<<"M", "A", "K", "E", " ", "a", "l", "l">>),
    Str(<<"r", "e", "m", "a", "k", "e">>),
    Str(<<"t", "s", "c">>)
}

C8_NullIffNotBuild ==
    bPc = "done" => (bResult.null <=> bCommand \notin BuildCommandsTried)

\* "MAKE all" on an output with an error line gets a report.
C8_Witness ==
    /\ bPc = "done"
    /\ bCommand = Str(<<"M", "A", "K", "E", " ", "a", "l", "l">>)
    /\ \E i \in 1..Len(bLines) : bLines[i] = "error"
    /\ ~bResult.null

(***************************************************************************)
(* C2.  For a test command, when the output holds a summary                *)
(* "test result: <status>. P passed; F failed;", the report says           *)
(* "PASS: P passed" and, when F > 0, "FAIL: F failed" (P and F those of    *)
(* the first such summary of the output).                                  *)
(***************************************************************************)
CargoSummaries == {i \in 1..Len(tLines) : tLines[i].kind \in {"cargo_ok", "cargo_FAILED"}}

InTestReport(entry) == \E j \in 1..Len(tResult.text) : tResult.text[j] = entry

C2_CargoSummaryReported ==
    (tPc = "done" /\ tCommand = CmdCargoTest /\ CargoSummaries # {})
    => LET first == CHOOSE i \in CargoSummaries : \A j \in CargoSummaries : i <= j
           P == tLines[first].a
           F == tLines[first].b
       IN  /\ ~tResult.null
           /\ InTestReport(<<"   PASS:", P>>)
           /\ F > 0 => InTestReport(<<"   FAIL:", F>>)

(***************************************************************************)
(* C3.  filterAggressive of a function whose body has two or more          *)
(* statements, the opening brace on the signature line or on a line of its *)
(* own, gives the signature line, the opening "{", one placeholder line    *)
(* "    // ... implementation" and the closing "}", and none of the        *)
(* statements of the body.                                                 *)
(***************************************************************************)
Statements(n) == [i \in 1..n |-> SrcLine("stmt")]

\* function f() { a(); ... } with the brace on the signature line.
FunctionBraceOnSignature(n) ==
    <<SrcLine("sigOpen")>> \o Statements(n) \o <<SrcLine("close")>>

\* The same function with the brace on a line of its own.
FunctionBraceOnOwnLine(n) ==
    <<SrcLine("sig"), SrcLine("open")>> \o Statements(n) \o <<SrcLine("close")>>

C3_AggressiveFunction ==
    (fPc = "done" /\ fLanguage = "typescript") =>
        \A n \in 2..MaxSourceLines :
            /\ fContent = FunctionBraceOnSignature(n) =>
                  fResult = <<SrcLine("sigOpen"), SrcLine("placeholder"),
                              SrcLine("close")>>
            /\ fContent = FunctionBraceOnOwnLine(n) =>
                  fResult = <<SrcLine("sig"), SrcLine("open"),
                              SrcLine("placeholder"), SrcLine("close")>>

(***************************************************************************)
(* C4.  For a content of more than M lines the output of                   *)
(* smartTruncate(content, M, language), kept lines, omitted markers and    *)
(* the trailing summary together, has at most M lines.                     *)
(***************************************************************************)
C4_TruncateWithinBudget ==
    (kPc = "done" /\ Len(kContent) > kMaxLines) => Len(kResult) <= kMaxLines

(***************************************************************************)
(* C5.  Path compaction returns the path unchanged when its length is      *)
(* within the limit or it has at most 3 "/"-separated parts; otherwise it  *)
(* returns what precedes the first "/", then "/.../", then the last two    *)
(* parts, which for "/a/b/c/d/e/file.ts" over the limit is                 *)
(* "/.../e/file.ts".                                                       *)
(***************************************************************************)
Slashes(path) == {i \in 1..Len(path) : path[i] = "/"}

\* The k-th "/" of the path, counting from 1.
SlashAt(path, k) ==
    CHOOSE i \in Slashes(path) : Cardinality({j \in Slashes(path) : j <= i}) = k

C5_CompactPath ==
    pPc = "done" =>
        /\ (Len(pPath) <= pMax \/ Cardinality(Slashes(pPath)) <= 2) => pResult = pPath
        /\ (Len(pPath) > pMax /\ Cardinality(Slashes(pPath)) > 2) =>
               pResult = SubSeq(pPath, 1, SlashAt(pPath, 1) - 1)
                            \o <<"/", ".", ".", ".", "/">>
                            \o SubSeq(pPath,
                                      SlashAt(pPath, Cardinality(Slashes(pPath)) - 1) + 1,
                                      Len(pPath))
        /\ (pPath = ExamplePath /\ Len(pPath) > pMax) =>
               pResult = <<"/", ".", ".", ".", "/", "e", "/",
                           "f", "i", "l", "e", ".", "t", "s">>

\* The example path, over the limit, compacted.
C5_Witness ==
    /\ pPc = "done"
    /\ pPath = ExamplePath
    /\ pMax = MaxPathLimit
    /\ pResult # pPath

\* The claim as it was stated: "/a/b/c/d/e/file.ts" becomes "a/.../d/file.ts".
C5_Original ==
    pPc = "done" =>
        /\ (Len(pPath) <= pMax \/ Cardinality(Slashes(pPath)) <= 2) => pResult = pPath
        /\ (pPath = ExamplePath /\ Len(pPath) > pMax) =>
               pResult = <<"a", "/", ".", ".", ".", "/", "d", "/",
                           "f", "i", "l", "e", ".", "t", "s">>

(***************************************************************************)
(* C9.  compactStatus returns exactly "Clean working tree" when its input  *)
(* is the empty string or one whitespace-only line (no line break).        *)
(***************************************************************************)
C9_CleanWorkingTree ==
    (sPc = "done" /\ \A i \in 1..Len(sOutput) : sOutput[i] \in {" ", "\t"})
    => sResult = CleanWorkingTree

\* A line of one space and one tab is a clean working tree.
C9_Witness ==
    /\ sPc = "done"
    /\ sOutput = <<" ", "\t">>
    /\ sResult = CleanWorkingTree

(***************************************************************************)
(* C10.  In the build error-block scanner and in the test failure-block    *)
(* scanner every opened block is appended to its result list exactly once: *)
(* the flushed blocks, with the block still open, are as many as the start *)
(* lines seen, and each begins with its own start line.                    *)
(***************************************************************************)
\* The blocks are one for each start line, each beginning with its start line.
BlocksMatchStarts(blocks, starts) ==
    /\ Len(blocks) = Cardinality(starts)
    /\ \A j \in 1..Len(blocks) : blocks[j] # <<>>
    /\ {blocks[j][1] : j \in 1..Len(blocks)} = starts

C10_BuildBlocks ==
    LET starts == {i \in 1..Len(bLines) : bLines[i] = "error"}
    IN  /\ bPc = "scan" =>
            BlocksMatchStarts(
                build.errors \o (IF build.inErrorBlock THEN <<build.currentError>> ELSE <<>>),
                starts)
        /\ (bPc = "done" /\ ~bResult.null) => BlocksMatchStarts(build.errors, starts)

C10_TestBlocks ==
    LET seen == {i \in 1..tIdx : tLines[i].kind \in {"FAIL", "test_FAILED"}}
    IN  /\ tPc = "scan" =>
            BlocksMatchStarts(
                test.failures \o (IF test.inFailure THEN <<test.currentFailure>> ELSE <<>>),
                seen)
        /\ (tPc \in {"format", "done"} /\ tSummary.failed > 0) =>
            (tIdx = Len(tLines) /\ BlocksMatchStarts(test.failures, seen))

C10_BlocksFlushedOnce == C10_BuildBlocks /\ C10_TestBlocks

\* A failure closed by the second blank line, and one flushed at end-of-stream.
C10_Witness ==
    /\ tPc = "done"
    /\ [i \in 1..Len(tLines) |-> tLines[i].kind]
           = <<"FAIL", "cont", "cont", "blank", "blank", "test_FAILED">>
    /\ test.failures = <<<<1, 2, 3, 4>>, <<6>>>>

(***************************************************************************)
(* C14.  isTestCommand is true exactly when a runner name stands in the    *)
(* lower-cased command as a whole token, bounded on each side by the start *)
(* or end of the command, whitespace or one of | ; &.  A name that stands  *)
(* only inside a longer word ("test" in "latest") does not count.  (Every  *)
(* runner name of two words ends in the word "test", itself a name, so     *)
(* the tokens to look for are the names of one word.)                      *)
(***************************************************************************)
\* The tokens of s: the maximal runs of characters that are no bounding
\* character.
WholeTokens(s) ==
    {SubSeq(s, p[1], p[2]) :
        p \in {q \in (1..Len(s)) \X (1..Len(s)) :
                  /\ q[1] <= q[2]
                  /\ \A k \in q[1]..q[2] : s[k] \notin TokenBounds
                  /\ (q[1] = 1 \/ s[q[1] - 1] \in TokenBounds)
                  /\ (q[2] = Len(s) \/ s[q[2] + 1] \in TokenBounds)}}

RunnerWords == {tc \in TEST_COMMANDS : \A k \in 1..Len(tc) : tc[k] # " "}

C14_WholeToken ==
    cPc = "done" =>
        cResult = (/\ ~cCommand.null
                   /\ WholeTokens(toLowerCase(cCommand.text)) \cap RunnerWords # {})

\* "latest" is no test command.
C14_Witness ==
    /\ cPc = "done"
    /\ cCommand = Str(<<"l", "a", "t", "e", "s", "t">>)
    /\ ~cResult

(***************************************************************************)
(* C18.  In an open error block of the build scanner, for a line none of   *)
(* the earlier rules takes: a blank line flushes and closes the block      *)
(* exactly when the blank-run counter, incremented, is at least 2 and the  *)
(* block already holds more than 3 lines, and otherwise is appended to the *)
(* block, which stays open; a line that starts with whitespace or "-->"    *)
(* is appended and resets the counter to 0; any other line flushes and     *)
(* closes the block and is added to no block.                              *)
(***************************************************************************)
\* The step of the scanner on one more line, met with an open block.
BuildStepInBlock ==
    /\ bPc = "scan"
    /\ bPc' = "scan"
    /\ Len(bLines') = Len(bLines) + 1
    /\ build.inErrorBlock

\* The block is flushed as it stood and closed; the line is in no block.
BlockFlushedAndClosed ==
    /\ build'.errors = Append(build.errors, build.currentError)
    /\ ~build'.inErrorBlock
    /\ build'.currentError = <<>>

\* The line is appended to the block, which stays open and unflushed.
BlockAppended ==
    /\ build'.currentError = Append(build.currentError, Len(bLines'))
    /\ build'.inErrorBlock
    /\ build'.errors = build.errors

C18_InBlock ==
    BuildStepInBlock =>
        LET line == bLines'[Len(bLines')]
        IN  /\ line = "blank" =>
                  /\ build'.blankCount = build.blankCount + 1
                  /\ IF build.blankCount + 1 >= 2 /\ Len(build.currentError) > 3
                     THEN BlockFlushedAndClosed
                     ELSE BlockAppended
            /\ line = "cont" => BlockAppended /\ build'.blankCount = 0
            /\ line = "other" => BlockFlushedAndClosed

C18_BlockContinuation == [][C18_InBlock]_vars

\* error, two continuation lines and two blank lines: the second blank line
\* found a block of 4 lines and closed it.
C18_Witness ==
    /\ bPc = "scan"
    /\ bLines = <<"error", "cont", "cont", "blank", "blank">>
    /\ build.errors = <<<<1, 2, 3, 4>>>>
    /\ ~build.inErrorBlock

(***************************************************************************)
(* C19.  The build scanner tries its rules on a line in the order          *)
(* unit-start, noise, error-start, warning, block continuation: a          *)
(* unit-start, noise or warning line met with an open error block is       *)
(* counted, dropped or added to the warnings, is not appended to the       *)
(* block, and leaves the block open with its blank-run counter unchanged.  *)
(***************************************************************************)
C19_InBlock ==
    BuildStepInBlock =>
        LET line == bLines'[Len(bLines')]
        IN  /\ line = "unit" =>
                  build' = [build EXCEPT !.compiled = @ + 1]
            /\ line = "noise" => build' = build
            /\ line = "warning" =>
                  build' = [build EXCEPT !.warnings = Append(@, Len(bLines'))]
            /\ line = "error" =>
                  /\ build'.currentError = <<Len(bLines')>>
                  /\ build'.inErrorBlock
                  /\ build'.errors = IF build.currentError # <<>>
                                     THEN Append(build.errors, build.currentError)
                                     ELSE build.errors

C19_RulePriority == [][C19_InBlock]_vars

\* A warning, a noise and a unit-start line inside a block that went on.
C19_Witness ==
    /\ bPc = "scan"
    /\ bLines = <<"error", "warning", "noise", "unit", "cont">>
    /\ build.currentError = <<1, 5>>
    /\ build.warnings = <<2>>
    /\ build.compiled = 1

(***************************************************************************)
(* C20.  A build report that is not the "[OK] Build successful" line,      *)
(* with K error blocks and J warnings: when K > 0 its first line is the    *)
(* header "[ERROR] K error(s):", followed by the first 5 blocks at most,   *)
(* each cut to its first 10 lines, and a "[WARN] J warning(s)" line comes  *)
(* last when J > 0; when K = 0 the report is the "[WARN] J warning(s)"     *)
(* line alone, without a header.                                           *)
(***************************************************************************)
\* The positions of the report whose entry has the tag.
ReportPositions(tag) ==
    {j \in 1..Len(bResult.text) : bResult.text[j][1] = tag}

\* The report of a build command that is not the "[OK]" line.
ReportOfProblems ==
    /\ bPc = "done"
    /\ ~bResult.null
    /\ bResult.text[1][1] # "[OK] Build successful"

\* The blocks shown are the first 5, each cut to its first 10 lines.
ReportShowsBlocks ==
    LET shown == Take(build.errors, 5)
        r == bResult.text
    IN  /\ {r[j][2] : j \in ReportPositions("line")}
              = UNION {{shown[b][k] : k \in 1..Len(Take(shown[b], 10))} :
                          b \in 1..Len(shown)}
        /\ \A j1, j2 \in ReportPositions("line") : j1 < j2 => r[j1][2] < r[j2][2]
        /\ Cardinality(ReportPositions("  ..."))
              = Cardinality({b \in 1..Len(shown) : Len(shown[b]) > 10})

\* The "[WARN]" line comes last when there are warnings, and is absent
\* otherwise.
ReportWarnsLast(J) ==
    ReportPositions("[WARN]") = IF J > 0 THEN {Len(bResult.text)} ELSE {}

C20_ReportShape ==
    ReportOfProblems =>
        LET K == Count(bLines, {"error"})
            J == Count(bLines, {"warning"})
        IN  /\ Len(build.errors) = K
            /\ K > 0 => /\ bResult.text[1] = <<"[ERROR]", K>>
                        /\ ReportPositions("[ERROR]") = {1}
            /\ K = 0 => bResult.text = <<<<"[WARN]", J>>>>
            /\ ReportShowsBlocks
            /\ ReportWarnsLast(J)
            /\ bResult.text[Len(bResult.text)][2] = J \/ J = 0

\* Six error blocks and a warning: the header counts 6, five blocks are
\* shown, then "... and 1 more errors" and the "[WARN]" line.
C20_Witness ==
    /\ ReportOfProblems
    /\ Count(bLines, {"error"}) = 6
    /\ Len(bResult.text) >= 3
    /\ bResult.text[1] = <<"[ERROR]", 6>>
    /\ bResult.text[Len(bResult.text) - 1] = <<"... and more errors", 1>>
    /\ bResult.text[Len(bResult.text)] = <<"[WARN]", 1>>

\* The statement as it stands: the header is the first line of every such
\* report.
C20_Original ==
    ReportOfProblems =>
        /\ bResult.text[1] = <<"[ERROR]", Count(bLines, {"error"})>>
        /\ ReportShowsBlocks
        /\ ReportWarnsLast(Count(bLines, {"warning"}))

(***************************************************************************)
(* C16. mergeConfig(base, override) gives each technique flag, and each    *)
(* field of the nested truncation, sourceCodeFiltering and smartTruncation *)
(* records, the override's value when the override specifies that field    *)
(* and the base's value otherwise; the result shares no technique record   *)
(* with base, and base is not modified.  Checked on the step of the load   *)
(* that merges a parsed file over DEFAULT_CONFIG, whose fields the commands *)
(* may have changed before.                                                *)
(***************************************************************************)
MergeStep == load.pc = "reading" /\ load'.pc = "done" /\ load'.parsed.has

\* What the parsed file says about a flag, or about a field of a nested
\* record: None when it does not specify it.
SpecifiedFlag(o, flag) ==
    IF o.techniques.has THEN o.techniques.v[flag] ELSE None
SpecifiedField(o, nested, field) ==
    IF o.techniques.has /\ o.techniques.v[nested].has
    THEN o.techniques.v[nested].v[field]
    ELSE None

NestedFields ==
    {<<"truncation", "enabled">>, <<"truncation", "maxChars">>,
     <<"sourceCodeFiltering", "enabled">>, <<"sourceCodeFiltering", "level">>,
     <<"smartTruncation", "enabled">>, <<"smartTruncation", "maxLines">>}

C16_Merged ==
    MergeStep =>
        LET o      == load'.parsed.v
            base   == Techniques(heap, DEFAULT_CONFIG)
            result == Techniques(heap', load'.result)
        IN  /\ \A flag \in booleanTechniques :
                result[flag] = IF SpecifiedFlag(o, flag).has
                               THEN SpecifiedFlag(o, flag).v
                               ELSE base[flag]
            /\ \A nf \in NestedFields :
                result[nf[1]][nf[2]] =
                    IF SpecifiedField(o, nf[1], nf[2]).has
                    THEN SpecifiedField(o, nf[1], nf[2]).v
                    ELSE base[nf[1]][nf[2]]
            /\ ObjectsOf(heap', load'.result) \cap ObjectsOf(heap, DEFAULT_CONFIG) = {}
            /\ \A i \in 1..Len(heap) : heap'[i] = heap[i]
C16_MergeConfig == [][C16_Merged]_vars

\* The README's override was merged over a base in which a command had
\* switched gitCompaction off: truncation is disabled and keeps the base's
\* maxChars, gitCompaction keeps the base's value.
C16_Witness ==
    /\ load.pc = "done"
    /\ load.parsed.has
    /\ load.parsed.v.techniques.has
    /\ load.parsed.v.techniques.v.truncation = Some(ReadmeTruncation)
    /\ commands = 1
    /\ heap[DefaultTechniquesRef].gitCompaction = FALSE
    /\ Techniques(heap, load.result).gitCompaction = FALSE
    /\ Techniques(heap, load.result).truncation =
           [enabled |-> FALSE, maxChars |-> DefaultMaxChars]

(***************************************************************************)
(* C15. When no configuration file can be read and parsed, loadConfig      *)
(* resolves to the default values (every technique enabled, maxChars       *)
(* 10000, level minimal, maxLines 200), whatever toggle or configure       *)
(* commands were executed before the load.                                 *)
(***************************************************************************)
DefaultTechniques == Techniques(DefaultHeap, DEFAULT_CONFIG)
LoadsDefaults ==
    (load.pc = "reading" /\ load'.pc = "done" /\ ~load'.parsed.has)
        => Techniques(heap', load'.result) = DefaultTechniques
C15_LoadDefaults == [][LoadsDefaults]_vars

(***************************************************************************)
(* C13. For a file read whose path has no extension or an extension        *)
(* outside the fixed table, the content is left unchanged under every      *)
(* configuration: filterMinimal and filterAggressive return the content as *)
(* is, and the tool_result handler returns no replacement, applies no      *)
(* smart truncation and records no metric.  (The extension is what follows *)
(* the last dot of the path, the dot included.)                            *)
(***************************************************************************)
endsWith(s, suffix) ==
    Len(s) >= Len(suffix) /\ SubSeq(s, Len(s) - Len(suffix) + 1, Len(s)) = suffix

\* No entry of the table is the extension of the path.
Unresolved(path) ==
    \A e \in LANGUAGE_EXTENSIONS : ~endsWith(toLowerCase(path), e[1])

ReadDispatched == event.tool = "read" /\ event'.tool = "none"

UnresolvedLeftAlone ==
    (ReadDispatched /\ Unresolved(event.input)) =>
        /\ filterMinimal(event.text, detectLanguage(event.input)) = event.text
        /\ filterAggressive(event.text, detectLanguage(event.input)) = event.text
        /\ last'.returned = Null
        /\ ~last'.smart
        /\ metrics' = metrics
        /\ processedCount' = processedCount
C13_UnknownUnchanged == [][UnresolvedLeftAlone]_vars

\* A file with a comment line and more lines than maxLines, read under the
\* aggressive level with smart truncation on: its extension (.json, .bak) is
\* not in the table, and nothing is returned for it.
C13_Witness ==
    /\ last.tool = "read"
    /\ Unresolved(last.path)
    /\ lastIndexOf(last.path, ".") > 0
    /\ enabled
    /\ Techniques(heap, config).sourceCodeFiltering =
           [enabled |-> TRUE, level |-> "aggressive"]
    /\ Techniques(heap, config).smartTruncation.enabled
    /\ Techniques(heap, config).smartTruncation.maxLines < Len(last.text)
    /\ \E i \in 1..Len(last.text) : last.text[i] = SrcLine("comment")
    /\ last.returned = Null
    /\ metrics = <<>>

(***************************************************************************)
(* The bash branch as the last dispatch left it: the working text after a  *)
(* step is the text the next step was given, and the final text after the  *)
(* last.                                                                   *)
(***************************************************************************)
BashRan == last.tool = "bash" /\ last.steps # <<>>

BashFinal == IF last.returned.null THEN last.text ELSE last.returned.text

TextAfter(i) ==
    IF i < Len(last.steps) THEN last.steps[i + 1].before ELSE BashFinal

\* The technique of step i replaced the working text by another one.
Swapped(i) == TextAfter(i) # last.steps[i].before

\* The names of the techniques that swapped the text, joined by commas.
RECURSIVE SwappedLabel(_)
SwappedLabel(i) ==
    IF i = 0 THEN ""
    ELSE IF Swapped(i) THEN Labelled(SwappedLabel(i - 1), last.steps[i].name)
    ELSE SwappedLabel(i - 1)

(***************************************************************************)
(* C11. On the command-output path the techniques are applied in the order *)
(* ANSI strip, build, test, git, linter, length truncation, each to the    *)
(* working text left by the earlier ones; the working text is swapped only *)
(* when a technique's result is non-null and differs from it, and the      *)
(* label recorded in the metric lists, in that order, exactly the          *)
(* techniques that swapped the text.                                       *)
(***************************************************************************)
BashOrder == <<"ansi", "build", "test", "git", "linter", "truncate">>

C11_Order ==
    BashRan =>
        /\ [i \in 1..Len(last.steps) |-> last.steps[i].name] = BashOrder
        /\ last.steps[1].before = last.text

C11_SwapRule ==
    BashRan =>
        \A i \in 1..Len(last.steps) :
            LET step == last.steps[i]
            IN  /\ Swapped(i) =>
                    (step.called /\ ~step.out.null /\ TextAfter(i) = step.out.text)
                /\ (step.called /\ ~step.out.null /\ step.out.text # step.before)
                    => Swapped(i)

C11_Label ==
    (BashRan /\ ~last.returned.null) =>
        /\ metrics # <<>>
        /\ metrics[Len(metrics)].technique = SwappedLabel(Len(last.steps))

C11_OrderSwapLabel == C11_Order /\ C11_SwapRule /\ C11_Label

(***************************************************************************)
(* C12. The dispatcher short-circuits: once one of the build, test, git    *)
(* and linter aggregators has changed the working text of a bash result,   *)
(* none of the aggregators after it in the order is applied to that text.  *)
(***************************************************************************)
Aggregators == {"build", "test", "git", "linter"}

C12_ShortCircuit ==
    BashRan =>
        \A i, j \in 1..Len(last.steps) :
            (/\ i < j
             /\ last.steps[i].name \in Aggregators
             /\ last.steps[j].name \in Aggregators
             /\ Swapped(i))
                => ~last.steps[j].called

(***************************************************************************)
(* C17. Whenever the tool_result handler replaces the text of a tool       *)
(* result, the replacement is shorter than the original text, so that      *)
(* every recorded metric has filteredChars < originalChars and             *)
(* savingsPercent >= 0.                                                    *)
(***************************************************************************)
originalChars(record) == Len(record.original)
filteredChars(record) == Len(record.filtered)

\* A hundred times savingsPercent, which is
\*   originalChars > 0 ? Math.round(((o - f) / o) * 100 * 100) / 100 : 0
\* with Math.round(x) the largest integer not above x + 1/2.
savingsHundredths(record) ==
    LET o == originalChars(record)
        f == filteredChars(record)
    IN  IF o > 0 THEN (2 * (o - f) * 10000 + o) \div (2 * o) ELSE 0

C17_ReducesVolume ==
    /\ (last.tool = "bash" /\ ~last.returned.null)
          => Len(last.returned.text) < Len(last.text)
    /\ \A m \in 1..Len(metrics) :
          /\ filteredChars(metrics[m]) < originalChars(metrics[m])
          /\ savingsHundredths(metrics[m]) >= 0

(***************************************************************************)
(* C21. In aggregateTestOutput the lines are counted by hand exactly when  *)
(* the extraction leaves passed = 0 and failed = 0 (no summary pattern     *)
(* matched the text, or the first that matched gave zero for both);        *)
(* otherwise the reported counts are the extracted ones, which come from   *)
(* the first pattern of the ordered list that matches the whole text.      *)
(***************************************************************************)
\* The patterns that match the text, and the counts the first of them gives.
MatchingPatterns(output) ==
    {p \in 1..Len(TEST_RESULT_PATTERNS) : Test(TEST_RESULT_PATTERNS[p], output)}

FirstPattern(output) ==
    CHOOSE p \in MatchingPatterns(output) : \A q \in MatchingPatterns(output) : p <= q

Extracted(output, k) ==
    IF MatchingPatterns(output) = {} THEN 0
    ELSE GroupInt(Match(TEST_RESULT_PATTERNS[FirstPattern(output)], output), output, k)

CountedByHand(output) == Extracted(output, 1) = 0 /\ Extracted(output, 2) = 0

Marked(pattern, lines) == Cardinality({i \in 1..Len(lines) : Test(pattern, lines[i].chars)})

\* The head of the report for the counts passed and failed, and what may not
\* follow it when failed = 0.
ReportHead(passed, failed) ==
    <<"T", "e", "s", "t", " ", "R", "e", "s", "u", "l", "t", "s", ":", "\n", " ", " ", " ", "P", "A", "S", "S", ":", " ">> \o Digits(passed) \o <<" ", "p", "a", "s", "s", "e", "d">>
        \o (IF failed > 0 THEN <<"\n", " ", " ", " ", "F", "A", "I", "L", ":", " ">> \o Digits(failed) \o <<" ", "f", "a", "i", "l", "e", "d">> ELSE <<>>)

Reports(report, passed, failed) ==
    LET head == ReportHead(passed, failed)
    IN  /\ startsWith(report, head)
        /\ ~startsWith(SubSeq(report, Len(head) + 1, Len(report)), <<"\n", " ", " ", " ", "F", "A", "I", "L", ":">>)

TestTextDone == tPc = "done" /\ tLines # <<>> /\ tLines[1].kind = "text" /\ ~tResult.null

C21_CountsExtractedOrCounted ==
    TestTextDone =>
        IF CountedByHand(TestText(tLines))
        THEN Reports(tResult.text, Marked(PASS_MARKER, tLines), Marked(FAIL_MARKER, tLines))
        ELSE Reports(tResult.text, Extracted(TestText(tLines), 1),
                     Extracted(TestText(tLines), 2))

\* A summary in the cargo form and a line with a pass mark: the first pattern
\* matches (the second would too), a count is extracted, nothing is counted.
C21_Witness ==
    /\ TestTextDone
    /\ MatchingPatterns(TestText(tLines)) = {1, 2, 3}
    /\ ~CountedByHand(TestText(tLines))
    /\ Marked(PASS_MARKER, tLines) = 2

\* No pattern gives a count, and the marks of the lines are counted.
C21_WitnessCounted ==
    /\ TestTextDone
    /\ MatchingPatterns(TestText(tLines)) # {}
    /\ CountedByHand(TestText(tLines))
    /\ Marked(FAIL_MARKER, tLines) = 1

(***************************************************************************)
(* C22.                                                                    *)
(***************************************************************************)
\* The line is read the same way by both scanners: it is none of the lines
\* only the build scanner knows (unit start, noise, warning), and the start
\* and continuation predicates of the two scanners agree on it.
Identified(chars) ==
    /\ BuildKindOf(chars) \notin {"unit", "noise", "warning"}
    /\ TestSome(ERROR_START_PATTERNS, chars) = isFailureStart(TextLine(chars))
    /\ TestSome(CONTINUATION_PATTERNS, chars) = isFailureContinuation(TextLine(chars))

IdentifiedLines == {chars \in LockLinesTried : Identified(chars)}

LockIdentified == \A i \in 1..Len(tLines) : tLines[i].chars \in IdentifiedLines

\* C22: given the same lines, none of them a unit start, noise or a warning of
\* the build scanner, and all of them read alike by the start and continuation
\* predicates of the two scanners, the build scanner and the test scanner are
\* in the same open/closed state with the same open block, the same count of
\* blank lines and the same closed blocks after every line, and after the
\* final flush.
C22_SameStateMachine ==
    (bPc \in {"lock", "done"} /\ tPc = bPc /\ LockIdentified) =>
        /\ build.inErrorBlock = test.inFailure
        /\ build.currentError = test.currentFailure
        /\ build.blankCount = test.blankCount
        /\ build.errors = test.failures

\* Every line was read alike, and both scanners have closed a block of four
\* lines on the second blank line of a run.
C22_Witness ==
    /\ bPc = "done" /\ tPc = "done"
    /\ LockIdentified
    /\ Len(tLines) = 5
    /\ isBlankTestLine(tLines[5])
    /\ test.failures = << <<1, 2, 3, 4>> >>
    /\ build.errors = test.failures

\* Where the predicates are not identified the scanners part: "- y" continues
\* a test failure block and closes a build error block.
C22_WitnessApart ==
    /\ bPc = "lock"
    /\ ~LockIdentified
    /\ test.inFailure /\ ~build.inErrorBlock

(***************************************************************************)
(* C23.                                                                    *)
(***************************************************************************)
\* The input lines of each shape.
FileFirstLines == {i \in 1..Len(oLines) : Test(LINT_FILE_FIRST, oLines[i])}
MessageFirstLines == {i \in 1..Len(oLines) : Test(LINT_MESSAGE_FIRST, oLines[i])}

LintDone == oPc = "linted" /\ ~oResult.null

\* The head of a report of e errors and w warnings.
LintHead(e, w) ==
    detectLinterType(oCommand.text) \o <<":", " ">> \o Digits(e) \o <<" ", "e", "r", "r", "o", "r", "s", ",", " ">>
        \o Digits(w) \o <<" ", "w", "a", "r", "n", "i", "n", "g", "s", " ", "i", "n", " ">>

LintReports(e, w) ==
    /\ Len(oResult.text) >= Len(LintHead(e, w))
    /\ Take(oResult.text, Len(LintHead(e, w))) = LintHead(e, w)

\* C23: the report of aggregateLinterOutput gives a number of errors and a
\* number of warnings whose sum is the number of input lines of one of the
\* two shapes; every line of the shape file:line:col: message is among the
\* errors, so that only lines of the shape severity: message at file:line:col
\* that are not of the first shape can be among the warnings; with no line of
\* either shape the report is "[OK] <Linter>: No issues found".
C23_CountsByShape ==
    LintDone =>
        /\ (FileFirstLines \cup MessageFirstLines = {}) <=>
              (oResult.text = <<"[", "O", "K", "]", " ">> \o detectLinterType(oCommand.text)
                                  \o <<":", " ", "N", "o", " ", "i", "s", "s", "u", "e", "s", " ", "f", "o", "u", "n", "d">>)
        /\ (FileFirstLines \cup MessageFirstLines # {}) =>
              \E e, w \in 0..Len(oLines) :
                  /\ LintReports(e, w)
                  /\ e + w = Cardinality(FileFirstLines \cup MessageFirstLines)
                  /\ e >= Cardinality(FileFirstLines)
                  /\ w <= Cardinality(MessageFirstLines \ FileFirstLines)
        /\ \A i \in FileFirstLines : parseLine(oLines[i]).severity = "ERROR"

\* A report of one error and one warning from three lines: one of both
\* shapes, one of the second shape only that says warning, one of neither.
C23_Witness ==
    /\ LintDone
    /\ Len(oLines) = 3
    /\ FileFirstLines \cap MessageFirstLines # {}
    /\ Cardinality(FileFirstLines \cup MessageFirstLines) = 2
    /\ LintReports(1, 1)

\* Lines that are not empty, none of either shape: no issues found.
C23_WitnessNone ==
    /\ LintDone
    /\ \E i \in 1..Len(oLines) : oLines[i] # <<>>
    /\ FileFirstLines \cup MessageFirstLines = {}
    /\ oResult.text = <<"[", "O", "K", "]", " ", "E", "S", "L", "i", "n", "t", ":", " ", "N", "o", " ", "i", "s", "s", "u", "e", "s", " ", "f", "o", "u", "n", "d">>

(***************************************************************************)
(* C24, C25, C26.                                                          *)
(***************************************************************************)
\* The loop piece by piece computes what compactDiff computes on the whole
\* output.
DiffAgrees ==
    oPc = "diffed" => Join(oResult.scan.result, <<"\n">>) = compactDiff(OutText, oMax)

\* The entries of the report, by what they are.
IsFileEntry(e) == startsWith(e, <<"\n", ">", " ">>)
IsHunkEntry(e) == startsWith(e, <<" ", " ", "@", "@">>)
IsHunkMark(e) == e = <<" ", " ", ".", ".", ".", " ", "(", "t", "r", "u", "n", "c", "a", "t", "e", "d", ")">>
IsDiffMark(e) == e = <<"\n", ".", ".", ".", " ", "(", "m", "o", "r", "e", " ", "c", "h", "a", "n", "g", "e", "s", " ", "t", "r", "u", "n", "c", "a", "t", "e", "d", ")">>
IsStatsEntry(e) ==
    Test(<<Bol, Lit(<<" ", " ", "+">>), Many(Digit, 1), Lit(<<" ", "-">>), Many(Digit, 1), Eol>>, e)
IsContentEntry(e) ==
    ~(IsFileEntry(e) \/ IsHunkEntry(e) \/ IsHunkMark(e) \/ IsDiffMark(e)
        \/ IsStatsEntry(e))
IsChangeEntry(e) ==
    IsContentEntry(e) /\ (startsWith(e, <<" ", " ", "+">>) \/ startsWith(e, <<" ", " ", "-">>))

\* The entries of the hunk whose header is entry h of the report r: those up
\* to the next hunk header or file header.
HunkEntries(r, h) ==
    {k \in (h + 1)..Len(r) :
        \A j \in (h + 1)..k : ~IsHunkEntry(r[j]) /\ ~IsFileEntry(r[j])}

HunkCapped(r) ==
    \A h \in 1..Len(r) :
        IsHunkEntry(r[h]) =>
            /\ Cardinality({k \in HunkEntries(r, h) : IsContentEntry(r[k])})
                  <= maxHunkLines
            /\ Cardinality({k \in HunkEntries(r, h) : IsHunkMark(r[k])}) <= 1
            /\ \A k, m \in HunkEntries(r, h) :
                  IsHunkMark(r[k]) /\ IsContentEntry(r[m]) => m < k
            /\ \A k \in HunkEntries(r, h) :
                  IsContentEntry(r[k]) /\ ~IsChangeEntry(r[k]) =>
                      \E m \in HunkEntries(r, h) : m < k /\ IsChangeEntry(r[m])

\* The loop reads a hunk header: the piece is one and the budget is not spent.
ReadsHunkHeader ==
    /\ oPc = "diff"
    /\ oResult'.pieces = oResult.pieces + 1
    /\ oLines' = Append(oLines, <<"@", "@", " ", "-", "1", " ", "+", "1", " ", "@", "@">>)
    /\ Len(oResult.scan.result) < oMax
    /\ ~oResult.scan.stopped

\* C24: in the report of compactDiff every hunk shows at most 10 content
\* lines, with at most one "  ... (truncated)" entry, which comes after them;
\* a context line is shown only after a "+" or "-" line shown in the same
\* hunk; and reading a hunk header sets the count of the hunk to 0.
C24_HunkCap ==
    [][/\ oPc' \in {"diff", "diffed"} => HunkCapped(oResult'.scan.result)
       /\ ReadsHunkHeader =>
             /\ oResult'.scan.hunkLines = 0
             /\ IsHunkEntry(oResult'.scan.result[Len(oResult'.scan.result)])]_vars

\* A hunk of 11 added lines is shown as 10 lines and the marker, and the hunk
\* after it shows its own line.
C24_Witness ==
    /\ oPc = "diffed"
    /\ oMax = DefaultDiffLines
    /\ oLines = <<<<"@", "@", " ", "-", "1", " ", "+", "1", " ", "@", "@">>>> \o Repeat(<<"+", "a">>, maxHunkLines) \o <<<<"@", "@", " ", "-", "1", " ", "+", "1", " ", "@", "@">>, <<"+", "a">>>>
    /\ oResult.scan.result =
          <<<<" ", " ", "@", "@", " ", "-", "1", " ", "+", "1", " ", "@", "@">>>> \o Repeat(<<" ", " ", "+", "a">>, maxHunkLines)
              \o <<<<" ", " ", ".", ".", ".", " ", "(", "t", "r", "u", "n", "c", "a", "t", "e", "d", ")">>, <<" ", " ", "@", "@", " ", "-", "1", " ", "+", "1", " ", "@", "@">>, <<" ", " ", "+", "a">>>>

\* A context line before any change of its hunk is not shown, one after is.
C24_WitnessContext ==
    /\ oPc = "diffed"
    /\ oLines = <<<<"@", "@", " ", "-", "1", " ", "+", "1", " ", "@", "@">>, <<" ", "c">>, <<"-", "b">>, <<" ", "c">>>>
    /\ oResult.scan.result = <<<<" ", " ", "@", "@", " ", "-", "1", " ", "+", "1", " ", "@", "@">>, <<" ", " ", "-", "b">>, <<" ", " ", " ", "c">>>>

\* The file headers of the output, and the lines of the file whose header is
\* line h: those up to the next file header.
IsFileLine(line) == startsWith(line, <<"d", "i", "f", "f", " ", "-", "-", "g", "i", "t">>)
FileLines(h) ==
    {i \in (h + 1)..Len(oLines) : \A j \in (h + 1)..i : ~IsFileLine(oLines[j])}
InHunk(h, i) == \E j \in FileLines(h) : j < i /\ startsWith(oLines[j], <<"@", "@">>)
AddedIn(h) ==
    Cardinality({i \in FileLines(h) :
        /\ InHunk(h, i) /\ ~startsWith(oLines[i], <<"@", "@">>)
        /\ startsWith(oLines[i], <<"+">>) /\ ~startsWith(oLines[i], <<"+", "+", "+">>)})
RemovedIn(h) ==
    Cardinality({i \in FileLines(h) :
        /\ InHunk(h, i) /\ ~startsWith(oLines[i], <<"@", "@">>)
        /\ startsWith(oLines[i], <<"-">>) /\ ~startsWith(oLines[i], <<"-", "-", "-">>)})

\* The n-th element of a set of numbers, counting from the least.
Nth(S, n) == CHOOSE x \in S : Cardinality({y \in S : y < x}) = n - 1

\* The entries of the file whose header is entry f of the report r.
FileEntries(r, f) ==
    {k \in (f + 1)..Len(r) : \A j \in (f + 1)..k : ~IsFileEntry(r[j])}

\* C25: when compactDiff is done, each file header of the report is followed,
\* before the next file header, by exactly one stats entry "  +A -R", where A
\* and R are the numbers of "+" and "-" lines in the hunks of that file in
\* the output.
C25_StatsPerFile ==
    oPc = "diffed" =>
        LET r == oResult.scan.result
            shown == {f \in 1..Len(r) : IsFileEntry(r[f])}
            files == {h \in 1..Len(oLines) : IsFileLine(oLines[h])}
        IN  \A n \in 1..Cardinality(shown) :
                LET f == Nth(shown, n)
                    h == Nth(files, n)
                IN  /\ Cardinality({k \in FileEntries(r, f) : IsStatsEntry(r[k])}) = 1
                    /\ \A k \in FileEntries(r, f) :
                          IsStatsEntry(r[k]) =>
                              r[k] = <<" ", " ", "+">> \o Digits(AddedIn(h)) \o <<" ", "-">>
                                         \o Digits(RemovedIn(h))

\* C26: when compactDiff has stopped on its budget of maxLines entries, the
\* report holds at most maxLines entries, then the one entry
\* "... (more changes truncated)", which is its last.
C26_StopsAtBudget ==
    (oPc = "diffed" /\ oResult.scan.stopped) =>
        LET r == oResult.scan.result
        IN  /\ IsDiffMark(r[Len(r)])
            /\ Cardinality({k \in 1..Len(r) : IsDiffMark(r[k])}) = 1
            /\ Len(r) <= oMax + 1

(***************************************************************************)
(* C27.                                                                    *)
(***************************************************************************)
\* The status lines of the output, and those of each bucket.
StatusLinesOf == {i \in 1..Len(oLines) : ~startsWith(oLines[i], <<"#", "#">>) /\ Len(oLines[i]) >= 3}
StagedLines == {i \in StatusLinesOf : oLines[i][1] \in {"M", "A", "D", "R", "C"}}
ConflictLines == {i \in StatusLinesOf : oLines[i][1] = "U"}
ModifiedLines == {i \in StatusLinesOf : oLines[i][2] \in {"M", "D"}}
UntrackedLines == {i \in StatusLinesOf : SubSeq(oLines[i], 1, 2) = <<"?", "?">>}

\* The file entries that follow entry k of the report r.
FilesAfter(r, k) ==
    {m \in (k + 1)..Len(r) : \A j \in (k + 1)..m : r[j].tag = "file"}

\* The bucket of lines ls is reported in r under tag with at most shown names.
BucketReported(r, tag, ls, shown) ==
    LET heads == {k \in 1..Len(r) : r[k].tag = tag}
        count == Cardinality(ls)
    IN  IF count = 0 THEN heads = {}
        ELSE /\ Cardinality(heads) = 1
             /\ \A k \in heads :
                   LET next == k + Cardinality(FilesAfter(r, k)) + 1
                   IN  /\ r[k].n = count
                       /\ Cardinality(FilesAfter(r, k)) = IF count > shown THEN shown ELSE count
                       /\ Cardinality(FilesAfter(r, k)) <= shown
                       /\ \A m \in FilesAfter(r, k) :
                             r[m].text = SubSeq(oLines[Nth(ls, m - k)], 4,
                                                Len(oLines[Nth(ls, m - k)]))
                       /\ (count > shown) <=>
                             (next <= Len(r) /\ r[next].tag = "more")
                       /\ (count > shown) => r[next].n = count - shown

\* C27: compactStatus tests each status line for every bucket on its own
\* (index column M, A, D, R or C: staged; index column U: conflict; worktree
\* column M or D: modified; code "??": untracked); each bucket with lines is
\* reported with the number of its lines, the names of its first 5 (staged,
\* modified) or 3 (untracked) lines and, when it has more, "... +K more" for
\* the K others; the conflicts are reported with their number.
C27_Buckets ==
    (oPc = "statused" /\ ~oResult.clean) =>
        /\ BucketReported(oResult.lines, "Staged:", StagedLines, MaxStagedShown)
        /\ BucketReported(oResult.lines, "Modified:", ModifiedLines, MaxModifiedShown)
        /\ BucketReported(oResult.lines, "Untracked:", UntrackedLines, MaxUntrackedShown)
        /\ LET heads == {k \in 1..Len(oResult.lines) : oResult.lines[k].tag = "Conflicts:"}
           IN  IF ConflictLines = {} THEN heads = {}
               ELSE /\ Cardinality(heads) = 1
                    /\ \A k \in heads : oResult.lines[k].n = Cardinality(ConflictLines)

\* A line "MM f" is counted as staged and as modified: six staged lines, of
\* which five are named and one is left to "... +1 more".
C27_Witness ==
    /\ oPc = "statused"
    /\ ~oResult.clean
    /\ Cardinality(StagedLines) = MaxStagedShown + 1
    /\ StagedLines \cap ModifiedLines # {}
    /\ \E k \in 1..Len(oResult.lines) :
          oResult.lines[k].tag = "more" /\ oResult.lines[k].n = 1

(***************************************************************************)
(* C28, C29.                                                               *)
(***************************************************************************)
SearchDone == gPc = "done" /\ ~gResult.null

SearchEntries(tag) == {k \in 1..Len(gResult.text) : gResult.text[k].tag = tag}

\* C28: the report of groupSearchResults(output, maxResults) holds at most
\* maxResults match lines.
C28_ShownWithinCap ==
    SearchDone => Cardinality(SearchEntries("match")) <= gMaxResults

\* C29: the report of groupSearchResults ends with the line "... +K more"
\* only if a file with results has no group in the report.
C29_TrailerOnlyIfLeftOut ==
    (SearchDone /\ SearchEntries("trailer") # {}) =>
        Cardinality(SearchEntries("file")) < Len(SearchFiles(gOutput))

(***************************************************************************)
(* C30.                                                                    *)
(***************************************************************************)
\* The steps of SpecMinimal compute what filterMinimal computes on the file.
MinimalAgrees == fPc = "done" => fResult = filterMinimal(fContent, fLanguage)

\* Block-comment mode as the statement has it: whether line i of the file is
\* processed with the mode open (it opens the mode, or the mode was open
\* after line i - 1), and whether the mode is open after line i.
RECURSIVE OpenAfter(_, _)
OpenAt(lines, i) ==
    \/ i > 1 /\ OpenAfter(lines, i - 1)
    \/ startsWithBlockStart(lines[i]) /\ ~startsWithDocComment(lines[i])
OpenAfter(lines, i) == OpenAt(lines, i) /\ ~endsWithBlockEnd(lines[i])

\* C30: in filterMinimal a line that starts the block comment and not the
\* doc comment opens block-comment mode, the first line from there on that
\* ends with the block end closes it, and no line read with the mode open is
\* put into the output.
C30_BlockCommentDropped ==
    [][(fPc = "minimal" /\ fContent' # fContent) =>
          /\ fResult'.inBlockComment = OpenAfter(fContent', Len(fContent'))
          /\ OpenAt(fContent', Len(fContent')) => fResult'.result = fResult.result]_vars

(***************************************************************************)
(* C31.                                                                    *)
(***************************************************************************)
IsBlankLine(line) == line.kind \in {"blank", "spaces"}

\* The lines without the blank lines at both ends.
RECURSIVE StripEnds(_)
StripEnds(lines) ==
    IF lines = <<>> THEN <<>>
    ELSE IF IsBlankLine(lines[1]) THEN StripEnds(Tail(lines))
    ELSE IF IsBlankLine(lines[Len(lines)]) THEN StripEnds(Take(lines, Len(lines) - 1))
    ELSE lines

\* The empty lines at the head of the lines.
RECURSIVE EmptyRun(_)
EmptyRun(lines) ==
    IF lines # <<>> /\ lines[1] = EmptyLine THEN 1 + EmptyRun(Tail(lines)) ELSE 0

\* The lines with every run of at least `from` empty lines cut to `to` of them.
RECURSIVE CutRuns(_, _, _)
CutRuns(lines, from, to) ==
    IF lines = <<>> THEN <<>>
    ELSE LET run == EmptyRun(lines)
         IN  IF run = 0 THEN <<lines[1]>> \o CutRuns(Tail(lines), from, to)
             ELSE Repeat(EmptyLine, IF run >= from THEN to ELSE run)
                      \o CutRuns(SubSeq(lines, run + 1, Len(lines)), from, to)

\* The lines of a text, the text without a character being one empty line.
AsLines(lines) == IF lines = <<>> THEN <<EmptyLine>> ELSE lines

EndsMinimal == fPc = "minimal" /\ fPc' = "done"

\* C31 (amended): the result of filterMinimal is what its pass kept, with the
\* blank lines at both ends removed and every run of 2 or more empty lines
\* cut to exactly 1 empty line; single empty lines are left as they are.
C31_BlankRuns ==
    [][EndsMinimal => fResult' = AsLines(CutRuns(StripEnds(fResult.result), 2, 1))]_vars

\* C31 as stated: every run of 3 or more empty lines is cut to exactly 2, and
\* runs of 1 or 2 are left as they are.
C31_Original ==
    [][EndsMinimal => fResult' = AsLines(CutRuns(StripEnds(fResult.result), 3, 2))]_vars

\* Two empty lines between two statements have become one, and a blank line
\* at the end is gone.
C31_Witness ==
    /\ fPc = "done"
    /\ fContent = <<SrcLine("stmt"), EmptyLine, EmptyLine, SrcLine("stmt"), EmptyLine>>
    /\ fResult = <<SrcLine("stmt"), EmptyLine, SrcLine("stmt")>>

(***************************************************************************)
(* C32, C33.                                                               *)
(***************************************************************************)
\* The loop of filterAggressive reads a line: the line, and the variables
\* before and after.
ReadsAggressive == fPc = "aggressive" /\ fContent' # fContent
LineRead == fContent'[Len(fContent')]
Placeholder == SrcLine("placeholder")

DepthAfter == fResult.braceDepth + openBraces(LineRead) - closeBraces(LineRead)

\* C32: a signature line is kept and opens implementation mode with the brace
\* depth 0, whatever braces it has; in that mode a line that is no import
\* and no signature is kept exactly if the depth after its braces is at most
\* 1 and it is "{", "}" or ends with "{"; the mode ends on the first line
\* that leaves the depth at 0 or less, and then, unless that line is blank
\* or a lone "}", one placeholder is appended; so there are never more
\* placeholders than signature lines.
C32_ImplementationMode ==
    [][ReadsAggressive =>
          /\ (matchesSignature(LineRead) /\ ~matchesImport(LineRead)) =>
                /\ fResult'.inImplementation
                /\ fResult'.braceDepth = 0
                /\ fResult'.result = Append(fResult.result, LineRead)
          /\ (fResult.inImplementation /\ ~matchesSignature(LineRead)
                /\ ~matchesImport(LineRead)) =>
                /\ fResult'.braceDepth = DepthAfter
                /\ fResult'.inImplementation = (DepthAfter > 0)
                /\ fResult'.result =
                      fResult.result
                          \o (IF DepthAfter <= 1 /\ isBraceLine(LineRead)
                              THEN <<LineRead>> ELSE <<>>)
                          \o (IF DepthAfter <= 0 /\ ~IsBlankLine(LineRead)
                                 /\ LineRead # SrcLine("close")
                              THEN <<Placeholder>> ELSE <<>>)
          /\ Count(fResult'.result, {Placeholder})
                <= Count(fContent', {SrcLine("sig"), SrcLine("sigOpen")})]_vars

\* A signature with its brace, a statement that ends the mode with a
\* placeholder, and a second signature whose body is closed by a lone "}"
\* without one.
C32_Witness ==
    /\ fPc = "aggressive"
    /\ fContent = <<SrcLine("sigOpen"), SrcLine("stmt"), SrcLine("sig"), SrcLine("open"),
                    SrcLine("close")>>
    /\ fResult.result = <<SrcLine("sigOpen"), Placeholder, SrcLine("sig"), SrcLine("open"),
                          SrcLine("close")>>
    /\ ~fResult.inImplementation

\* C33: an import line is kept, in implementation mode too, and changes
\* neither the mode nor the brace depth; outside implementation mode a line
\* that is no import, no signature and no const/static/let declaration is
\* dropped.
C33_ImportsKept ==
    [][ReadsAggressive =>
          /\ matchesImport(LineRead) =>
                /\ fResult'.result = Append(fResult.result, LineRead)
                /\ fResult'.inImplementation = fResult.inImplementation
                /\ fResult'.braceDepth = fResult.braceDepth
          /\ (~fResult.inImplementation /\ ~matchesImport(LineRead)
                /\ ~matchesSignature(LineRead) /\ ~matchesConst(LineRead)) =>
                fResult'.result = fResult.result]_vars

\* An import is kept inside an open body, which goes on after it, and a
\* statement outside a body is dropped.
C33_Witness ==
    /\ fPc = "aggressive"
    /\ fContent = <<SrcLine("stmt"), SrcLine("sig"), SrcLine("open"), SrcLine("import"),
                    SrcLine("close")>>
    /\ fResult.result = <<SrcLine("sig"), SrcLine("open"), SrcLine("import"),
                          SrcLine("close")>>

(***************************************************************************)
(* C34, C35, C36.  smartTruncate, one line of its loop at a time.          *)
(***************************************************************************)

\* smartTruncate has returned from its loop.
TruncEnds == kPc = "loop" /\ kPc' = "done"

\* A pass of the loop of smartTruncate.
TruncPasses == kPc = "loop" /\ kPc' = "loop" /\ kResult'.read = kResult.read + 1

\* The loop taken at once and the loop taken line by line return the same.
TruncateAgrees ==
    [][(kPc = "loop" /\ kPc' = "done")
          => kResult' = smartTruncate(kContent, kMaxLines, "typescript")]_vars

\* The lines smartTruncate has kept of the first j lines of the file, while
\* its loop has not been left.
KeptAfter(j) ==
    TruncateScan(SubSeq(kContent, 1, j), 1,
        [result |-> <<>>, keptLines |-> 0, skippedSection |-> FALSE],
        kMaxLines).keptLines

\* The lines dropped in a row up to and including the r-th line.
DroppedRun(r) == Cardinality({j \in 1..r : KeptAfter(j - 1) = KeptAfter(r)})

\* The marker of n omitted lines.
OmittedMarker(n) == [kind |-> "omitted", n |-> n, m |-> 0]

\* The pass of the loop has kept its line.
KeepsLine == kResult'.keptLines = kResult.keptLines + 1

\* The result after a pass that puts a marker of n lines before a kept line
\* that follows dropped lines, and nothing for a dropped line.
MarkedResult(n) ==
    IF ~KeepsLine THEN kResult.result
    ELSE IF DroppedRun(kResult.read) > 0
         THEN kResult.result \o <<OmittedMarker(n), kContent[kResult'.read]>>
         ELSE Append(kResult.result, kContent[kResult'.read])

\* C34: a kept line that follows a run of dropped lines gets exactly one
\* omitted marker, immediately before it, and the number in the marker is
\* the number of lines dropped in that run; no other marker is emitted.
C34_OmittedMarkers ==
    [][TruncPasses => kResult'.result = MarkedResult(DroppedRun(kResult.read))]_vars

\* The placement of the markers alone, the number being the one the code
\* computes: the lines of the file less the entries of the result less the
\* lines kept.
C34_MarkersPlaced ==
    [][TruncPasses =>
          kResult'.result =
              MarkedResult(Len(kContent) - Len(kResult.result) - kResult.keptLines)]_vars

\* The pass of the loop has put an omitted marker in the result.
EmitsMarker ==
    \E p \in (Len(kResult.result) + 1)..Len(kResult'.result) :
        kResult'.result[p].kind = "omitted"

\* C35: on every pass of the loop of smartTruncate an important line is
\* kept, a line that is not important is kept only if fewer than M/2 lines
\* were kept before it, the kept count does not decrease, and a line is
\* dropped or an omitted marker emitted only once at least M/2 lines have
\* been kept.
C35_KeepRule ==
    [][TruncPasses =>
          /\ isImportant(kContent[kResult'.read]) => KeepsLine
          /\ (KeepsLine /\ ~isImportant(kContent[kResult'.read]))
                => 2 * kResult.keptLines < kMaxLines
          /\ kResult'.keptLines >= kResult.keptLines
          /\ (~KeepsLine \/ EmitsMarker) => 2 * kResult.keptLines >= kMaxLines]_vars

\* Witness for C35: the loop has kept lines that are not important up to
\* half of the budget, dropped the next one and kept an important line
\* after it behind a marker.
C35_Witness ==
    /\ kPc = "loop"
    /\ kMaxLines = 4
    /\ SubSeq(kContent, 1, 4) =
          <<SrcLine("stmt"), SrcLine("blank"), SrcLine("stmt"), SrcLine("import")>>
    /\ kResult.read = 4
    /\ kResult.keptLines = 3
    /\ Len(kResult.result) = 4
    /\ kResult.result[3].kind = "omitted"
    /\ kResult.result[4] = SrcLine("import")

\* The summary line of a file of total lines of which kept were kept.
SummaryLine(kept, total) == [kind |-> "summary", n |-> total - kept, m |-> total]

\* The summary lines of a result.
Summaries(result) == {p \in 1..Len(result) : result[p].kind = "summary"}

\* C36: a file of at most M lines is returned unchanged; for a longer file
\* and M >= 2 the loop of smartTruncate makes no pass once M-1 lines are
\* kept, never keeps more than M-1 lines, and the result ends with exactly
\* one summary line, of (total lines - kept lines) and of the total lines of
\* the file.
C36_StopsAndSums ==
    [][/\ (kPc = "read" /\ kPc' # "read")
             => IF Len(kContent) <= kMaxLines'
                THEN kPc' = "done" /\ kResult' = kContent
                ELSE kPc' = "loop"
       /\ (TruncPasses /\ kMaxLines >= 2)
             => /\ kResult.keptLines < kMaxLines - 1
                /\ kResult'.keptLines <= kMaxLines - 1
                /\ kResult'.stopped <=> kResult'.keptLines = kMaxLines - 1
       /\ (TruncEnds /\ kMaxLines >= 2)
             => /\ kResult.keptLines <= kMaxLines - 1
                /\ kResult.stopped \/ kResult.read = Len(kContent)
                /\ kResult' = Append(kResult.result,
                                  SummaryLine(kResult.keptLines, Len(kContent)))
                /\ Summaries(kResult') = {Len(kResult')}]_vars

\* Witness for C36: a file of five lines truncated to a budget of three,
\* two lines kept and the summary of the three others.
C36_Witness ==
    /\ kPc = "done"
    /\ kMaxLines = 3
    /\ Len(kContent) = 5
    /\ kResult = <<kContent[1], kContent[2], SummaryLine(2, 5)>>

(***************************************************************************)
(* C37.  The character budget of the bash path.                            *)
(***************************************************************************)

\* The handler dispatches a bash result.
BashDispatches == event.tool = "bash" /\ event' = NoEvent

\* The text the agent gets for the bash result dispatched: the one the
\* handler returned, or the original one when it returned nothing.
BashHandedBack ==
    IF last'.returned.null THEN event.text ELSE last'.returned.text

\* The truncate step of the handler's run.
TruncateStepOf(steps) == steps[Len(steps)]

\* C37: with RTK and truncation enabled the text handed back for a bash
\* result is at most maxChars long, and when truncate is called on a longer
\* text its result is exactly maxChars long, the first maxChars - 3
\* characters followed by "...".
C37_WithinBudget ==
    [][(BashDispatches /\ enabled /\ Techniques(heap, config).truncation.enabled)
          => LET n == Techniques(heap, config).truncation.maxChars
                 step == TruncateStepOf(last'.steps)
             IN  /\ Len(BashHandedBack) <= n
                 /\ step.called
                       => /\ Len(step.out.text) = n
                          /\ step.out.text =
                                Take(step.before, n - 3) \o <<".", ".", ".">>]_vars

\* The same for the budgets of three characters and more, where it holds:
\* below three truncate returns "...", three characters long.
C37_FromThreeUp ==
    [][(/\ BashDispatches /\ enabled
        /\ Techniques(heap, config).truncation.enabled
        /\ Techniques(heap, config).truncation.maxChars >= 3)
          => LET n == Techniques(heap, config).truncation.maxChars
                 step == TruncateStepOf(last'.steps)
             IN  /\ Len(BashHandedBack) <= n
                 /\ step.called
                       => /\ Len(step.out.text) = n
                          /\ step.out.text =
                                Take(step.before, n - 3) \o <<".", ".", ".">>]_vars

(***************************************************************************)
(* C38.  processedCount and the metrics list.                              *)
(***************************************************************************)

\* The handler dispatches the tool result.
Dispatches == event.tool # "none" /\ event' = NoEvent

\* C38: processedCount is the number of metric records; a dispatch that
\* returns replaced content appends one record, of the tool, of the two
\* texts, which differ, and with a technique label that is not empty; a
\* dispatch that returns nothing appends none; rtk-clear empties the list
\* and sets processedCount to zero; no other step changes either of them.
C38_MetricsCounted ==
    [][/\ processedCount' = Len(metrics')
       /\ IF Dispatches
          THEN IF last'.returned.null
               THEN metrics' = metrics
               ELSE /\ Len(metrics') = Len(metrics) + 1
                    /\ SubSeq(metrics', 1, Len(metrics)) = metrics
                    /\ LET record == metrics'[Len(metrics')]
                       IN  /\ record.tool = event.tool
                           /\ record.technique # ""
                           /\ record.original = event.text
                           /\ record.filtered = last'.returned.text
                           /\ record.filtered # record.original
          ELSE IF commands' # commands /\ last'.tool = "rtk-clear"
               THEN metrics' = <<>> /\ processedCount' = 0
               ELSE metrics' = metrics]_vars

\* Witness for C38: a bash result and a grep result were replaced and
\* recorded, the second one after RTK had been switched off and on again.
C38_Witness ==
    /\ processedCount = 2
    /\ Len(metrics) = 2
    /\ metrics[1].tool = "bash"
    /\ metrics[1].technique = "ansi"
    /\ metrics[2].tool = "grep"
    /\ metrics[2].technique = "search"
    /\ commands = 2
    /\ last.tool = "grep"

\* Witness for C38: rtk-clear after a recorded result.
C38_WitnessCleared ==
    /\ last.tool = "rtk-clear"
    /\ commands = 2
    /\ processedCount = 0
    /\ metrics = <<>>
    /\ event.tool = "read"

(***************************************************************************)
(* C39, C40.  The commands and the load of session_start.                  *)
(***************************************************************************)

\* The technique settings in effect, under the names rtk_configure gives
\* them: what the handler reads through config at a tool result.
Settings(h, c) ==
    LET t == Techniques(h, c)
    IN  [ansiStripping |-> t.ansiStripping,
         truncationEnabled |-> t.truncation.enabled,
         truncationMaxChars |-> t.truncation.maxChars,
         sourceCodeFilteringEnabled |-> t.sourceCodeFiltering.enabled,
         sourceCodeFilteringLevel |-> t.sourceCodeFiltering.level,
         smartTruncationEnabled |-> t.smartTruncation.enabled,
         smartTruncationMaxLines |-> t.smartTruncation.maxLines,
         testOutputAggregation |-> t.testOutputAggregation,
         buildOutputFiltering |-> t.buildOutputFiltering,
         gitCompaction |-> t.gitCompaction,
         searchResultGrouping |-> t.searchResultGrouping,
         linterAggregation |-> t.linterAggregation]

SettingNames == DOMAIN NoParams

\* The settings the module starts with.
StartSettings == Settings(DefaultHeap, DEFAULT_CONFIG)

\* A command has run in the step.
CommandRuns == commands' = commands + 1

\* The settings a toggle or rtk_configure has changed: before the load of
\* session_start completes only they can make a setting differ from the
\* one the module starts with.
SetByCommand ==
    IF load.pc = "done" THEN {}
    ELSE {f \in SettingNames : Settings(heap, config)[f] # StartSettings[f]}

\* rtk_configure with the parameters params changes the settings named in
\* them and no other.
ConfiguresOnly(params) ==
    Settings(configure(heap, config, params), config) =
        [f \in SettingNames |->
            IF params[f].has THEN params[f].v ELSE Settings(heap, config)[f]]

\* C40: a step that is no command leaves every setting that a toggle or
\* rtk_configure has made as it is, the completion of the load of
\* session_start too; and rtk_configure changes the settings present in its
\* parameters only.
C40_SettingsStay ==
    [][/\ ~CommandRuns
           => \A f \in SetByCommand :
                  Settings(heap', config')[f] = Settings(heap, config)[f]
       /\ \A params \in ParamsTried : ConfiguresOnly(params)]_vars

\* The part of C40 on rtk_configure alone, and the settings after the load
\* has completed: no step but a command changes them.
C40_AfterLoad ==
    [][/\ (~CommandRuns /\ load.pc = "done")
           => Settings(heap', config') = Settings(heap, config)
       /\ \A params \in ParamsTried : ConfiguresOnly(params)]_vars

\* The handler leaves the tool result dispatched as it is and records
\* nothing.
LeftAlone ==
    /\ last'.returned.null
    /\ metrics' = metrics
    /\ processedCount' = processedCount

\* C39: while RTK is switched off every tool result dispatched is left as
\* it is and records no metric, and RTK, once switched off, is switched on
\* by a command only (rtk-on is the one that does it), not by the completion
\* of the load of session_start.
C39_OffUntilOn ==
    [][/\ (Dispatches /\ ~enabled) => LeftAlone
       /\ (~enabled /\ enabled') => CommandRuns]_vars

\* The part of C39 that holds: a tool result dispatched while enabled is
\* false is left alone.
C39_OffLeavesAlone == [][(Dispatches /\ ~enabled) => LeftAlone]_vars

=============================================================================
